---- MODULE Spec2Model ----
(***************************************************************************)
(* frontmatter-lint: the structural validator (checker/validator.ts), the  *)
(* YAML-subset and TOML-subset parsers (parser/yaml.ts, parser/toml.ts),   *)
(* the frontmatter extraction (parser/frontmatter.ts), the directive       *)
(* comments (parser/type-comment.ts), lintFile / lintContent (index.ts),   *)
(* and the type flattening and the program cache of                        *)
(* checker/type-extractor.ts.                                              *)
(*                                                                         *)
(* JavaScript values are tagged records.  An object is an ordered mapping: *)
(* keys is the sequence of its own keys in iteration order, vals the       *)
(* values at the same positions.  A record field that the code sets to     *)
(* undefined is absent from the record of the model.                       *)
(***************************************************************************)
EXTENDS Integers, Sequences, FiniteSets, TLC

VARIABLES
    value,        \* validate: the value handed to validate
    typeInfo,     \* validate: the TypeInfo handed to validate
    called,       \* validate: the option sets validate has been called with
    results,      \* validate: the returned error list, per option set
    yamlInput,    \* parseYaml: the lines of the input text
    yamlPc,       \* parseYaml: "ready" before the call, "done" after it
    yamlResult,   \* parseYaml: the returned mapping
    tomlInput,    \* parseToml: the input text
    tomlPc,       \* parseToml: "ready" before the call, "done" after it
    tomlResult,   \* parseToml: the returned mapping, or the error thrown
    document,     \* extractFrontmatter: the document text (content)
    frontmatterPc, \* extractFrontmatter: "ready" before the call, "done" after
    frontmatter,  \* extractFrontmatter: the returned ParsedFrontmatter or null
    commentLine,  \* parseTypeComment: the line
    commentPc,    \* parseTypeComment: "ready" before the call, "done" after it
    typeComment,  \* parseTypeComment: the returned TypeReference or null
    lintEnv,      \* lintFile / lintContent: the document and the schema files
    lintPc,       \* lintFile / lintContent: "ready" before the call, "done" after
    lintOptions,  \* lintFile / lintContent: the options of the call
    lintProbes,   \* lintFile / lintContent: the files and validators consulted
    lintResult,   \* lintFile / lintContent: the returned LintResult
    typeGraph,    \* extractTypeInfo: the types of the program, by type id
    convPc,       \* extractTypeInfo: "ready", "running" or "done"
    convCalls,    \* extractTypeInfo: the calls made so far
    foundType,    \* extractTypeInfo: the id of the type asked for
    convStack,    \* convertTsTypeToTypeInfo: the calls that have not returned
    visited,      \* convertTsTypeToTypeInfo: the visited set of the call
    convResult,   \* extractTypeInfo: the returned TypeInfo
    tasks,        \* lintFiles: per lintFile call, the cache users it runs
    taskPc,       \* lintFiles: per lintFile call, the cache users it has run
    programCache, \* programCache: the program id cached for a path
    created       \* ts.createProgram: the path of every program created

validateVars == <<value, typeInfo, called, results>>
yamlVars == <<yamlInput, yamlPc, yamlResult>>
tomlVars == <<tomlInput, tomlPc, tomlResult>>
frontmatterVars == <<document, frontmatterPc, frontmatter>>
commentVars == <<commentLine, commentPc, typeComment>>
lintVars == <<lintEnv, lintPc, lintOptions, lintProbes, lintResult>>
convertVars ==
    <<typeGraph, convPc, convCalls, foundType, convStack, visited,
      convResult>>
cacheVars == <<tasks, taskPc, programCache, created>>
extractorVars == <<convertVars, cacheVars>>
vars == <<validateVars, yamlVars, tomlVars, frontmatterVars, commentVars,
          lintVars, extractorVars>>

-----------------------------------------------------------------------------
(* Values *)

Str(s) == [tag |-> "string", s |-> s]
Num(n) == [tag |-> "number", n |-> n]
Bool(b) == [tag |-> "boolean", b |-> b]
Null == [tag |-> "null"]
Undefined == [tag |-> "undefined"]
Arr(items) == [tag |-> "array", items |-> items]
Obj(keys, vals) == [tag |-> "object", keys |-> keys, vals |-> vals]

RECURSIVE Pow10(_)
Pow10(n) == IF n = 0 THEN 1 ELSE 10 * Pow10(n - 1)

RECURSIVE Decimal(_, _)
\* the number m / 10^e: an integer when e = 0, else m is no multiple of 10
Decimal(m, e) ==
    IF e = 0 THEN Num(m)
    ELSE IF m % 10 = 0 THEN Decimal(m \div 10, e - 1)
    ELSE [tag |-> "number", n |-> m, scale |-> e]

RECURSIVE FractionText(_, _)
\* the last width decimal digits of n
FractionText(n, width) ==
    IF width = 0 THEN ""
    ELSE FractionText(n \div 10, width - 1) \o ToString(n % 10)

\* String(number)
NumberText(v) ==
    IF "scale" \notin DOMAIN v THEN ToString(v.n)
    ELSE LET abs == IF v.n < 0 THEN 0 - v.n ELSE v.n
         IN (IF v.n < 0 THEN "-" ELSE "")
            \o ToString(abs \div Pow10(v.scale)) \o "."
            \o FractionText(abs % Pow10(v.scale), v.scale)

\* Array.isArray(value)
IsArray(v) == v.tag = "array"

\* typeof value
TypeOf(v) ==
    IF v.tag \in {"null", "array", "object"} THEN "object" ELSE v.tag

\* getActualType(value)
getActualType(v) ==
    IF v = Undefined THEN "undefined"
    ELSE IF v = Null THEN "null"
    ELSE IF IsArray(v) THEN "array"
    ELSE TypeOf(v)

\* name in obj
HasKey(obj, name) == \E i \in 1..Len(obj.keys) : obj.keys[i] = name

\* obj[name], for a key that is present
Get(obj, name) ==
    obj.vals[CHOOSE i \in 1..Len(obj.keys) : obj.keys[i] = name]

RECURSIVE Join(_, _)
\* Array.prototype.join
Join(strs, sep) ==
    IF Len(strs) = 0 THEN ""
    ELSE IF Len(strs) = 1 THEN strs[1]
    ELSE strs[1] \o sep \o Join(Tail(strs), sep)

RECURSIVE JSONStringify(_)
\* JSON.stringify(value), interpolated into a template literal
JSONStringify(v) ==
    CASE v.tag = "string" -> "\"" \o v.s \o "\""
      [] v.tag = "number" -> NumberText(v)
      [] v.tag = "boolean" -> IF v.b THEN "true" ELSE "false"
      [] v.tag = "null" -> "null"
      [] v.tag = "undefined" -> "undefined"
      [] v.tag = "array" ->
            "[" \o Join([i \in 1..Len(v.items) |->
                           IF v.items[i] = Undefined THEN "null"
                           ELSE JSONStringify(v.items[i])], ",") \o "]"
      [] v.tag = "object" ->
            LET kept == SelectSeq([i \in 1..Len(v.keys) |-> i],
                                  LAMBDA i : v.vals[i] # Undefined)
            IN "{" \o Join([j \in 1..Len(kept) |->
                              "\"" \o v.keys[kept[j]] \o "\":"
                              \o JSONStringify(v.vals[kept[j]])], ",") \o "}"

-----------------------------------------------------------------------------
(* TypeInfo *)

TString == [kind |-> "string"]
TNumber == [kind |-> "number"]
TBoolean == [kind |-> "boolean"]
TNull == [kind |-> "null"]
TUndefined == [kind |-> "undefined"]
TAny == [kind |-> "any"]
TUnknown == [kind |-> "unknown"]
TLiteral(v) == [kind |-> "literal", value |-> v]
TArray(t) == [kind |-> "array", elementType |-> t]
TObject(props) == [kind |-> "object", properties |-> props]
TUnion(ts) == [kind |-> "union", types |-> ts]
TIntersection(ts) == [kind |-> "intersection", types |-> ts]
Prop(name, type, optional) ==
    [name |-> name, type |-> type, optional |-> optional]

RECURSIVE typeInfoToString(_)
typeInfoToString(t) ==
    CASE t.kind = "string" -> "string"
      [] t.kind = "number" -> "number"
      [] t.kind = "boolean" -> "boolean"
      [] t.kind = "null" -> "null"
      [] t.kind = "undefined" -> "undefined"
      [] t.kind = "any" -> "any"
      [] t.kind = "unknown" -> "unknown"
      [] t.kind = "literal" ->
            IF t.value.tag = "string" THEN "\"" \o t.value.s \o "\""
            ELSE JSONStringify(t.value)
      [] t.kind = "array" -> typeInfoToString(t.elementType) \o "[]"
      [] t.kind = "object" ->
            IF Len(t.properties) = 0 THEN "{}"
            ELSE "{ " \o Join([i \in 1..Len(t.properties) |->
                        t.properties[i].name
                        \o (IF t.properties[i].optional THEN "?" ELSE "")
                        \o ": " \o typeInfoToString(t.properties[i].type)],
                     ", ") \o " }"
      [] t.kind = "union" ->
            Join([i \in 1..Len(t.types) |-> typeInfoToString(t.types[i])],
                 " | ")
      [] t.kind = "intersection" ->
            Join([i \in 1..Len(t.types) |-> typeInfoToString(t.types[i])],
                 " & ")

-----------------------------------------------------------------------------
(* LintOptions *)

\* {} : the default value of the options parameter of validate
NoOptions == [f \in {} |-> TRUE]
StrictOptions == [allowExtraProps |-> FALSE]
LenientOptions == [allowExtraProps |-> TRUE]

\* mutant: the switch is ignored, extra properties are always errors
allowExtraProps_Ignored(options) == FALSE

\* mutant: an unset switch counts as set
allowExtraProps_UnsetLenient(options) ==
    "allowExtraProps" \notin DOMAIN options \/ options.allowExtraProps

\* mutant: the switch is read the wrong way round
allowExtraProps_Inverted(options) ==
    ~("allowExtraProps" \in DOMAIN options /\ options.allowExtraProps)

\* options.allowExtraProps, undefined being falsy
allowExtraProps(options) ==
    "allowExtraProps" \in DOMAIN options /\ options.allowExtraProps

-----------------------------------------------------------------------------
(* ValidationError *)

\* path || "root"
PathOrRoot(path) == IF path = "" THEN "root" ELSE path

\* the TYPE_MISMATCH error of the primitive, array, object and union cases;
\* path: path || undefined
TypeMismatch(path, message, expected, actual) ==
    IF path = ""
    THEN [code |-> "TYPE_MISMATCH", message |-> message,
          expected |-> expected, actual |-> actual]
    ELSE [code |-> "TYPE_MISMATCH", message |-> message, path |-> path,
          expected |-> expected, actual |-> actual]

\* the TYPE_MISMATCH error of the literal case; actual is
\* JSON.stringify(value), which is undefined for the value undefined
LiteralMismatch(path, message, expected, v) ==
    IF v = Undefined
    THEN IF path = ""
         THEN [code |-> "TYPE_MISMATCH", message |-> message,
               expected |-> expected]
         ELSE [code |-> "TYPE_MISMATCH", message |-> message, path |-> path,
               expected |-> expected]
    ELSE TypeMismatch(path, message, expected, JSONStringify(v))

MissingProperty(propPath, expected) ==
    [code |-> "MISSING_PROPERTY",
     message |-> "Required property '" \o propPath \o "' is missing",
     path |-> propPath, expected |-> expected]

ExtraProperty(propPath) ==
    [code |-> "EXTRA_PROPERTY",
     message |-> "Property '" \o propPath \o "' is not defined in schema",
     path |-> propPath]

-----------------------------------------------------------------------------
(* validateValue: every operator returns the errors array after its pushes *)

\* mutant: the dot is written at the root too
PropPath_LeadingDot(path, name) == path \o "." \o name

\* path ? `${path}.${name}` : name
PropPath(path, name) == IF path # "" THEN path \o "." \o name ELSE name

\* path ? `${path}[${index}]` : `[${index}]`
ElementPath(path, index) ==
    IF path # "" THEN path \o "[" \o ToString(index) \o "]"
    ELSE "[" \o ToString(index) \o "]"

\* mutant: the null case compares with == instead of ===
PrimitiveMatches_LooseNull(kind, v) ==
    CASE kind = "string" -> TypeOf(v) = "string"
      [] kind = "number" -> TypeOf(v) = "number"
      [] kind = "boolean" -> TypeOf(v) = "boolean"
      [] kind = "null" -> v \in {Null, Undefined}
      [] kind = "undefined" -> v = Undefined

\* the tests of the cases "string", "number", "boolean", "null", "undefined"
PrimitiveMatches(kind, v) ==
    CASE kind = "string" -> TypeOf(v) = "string"
      [] kind = "number" -> TypeOf(v) = "number"
      [] kind = "boolean" -> TypeOf(v) = "boolean"
      [] kind = "null" -> v = Null
      [] kind = "undefined" -> v = Undefined

validatePrimitive(v, t, path, errors) ==
    IF ~PrimitiveMatches(t.kind, v)
    THEN Append(errors,
            TypeMismatch(path,
                "'" \o PathOrRoot(path) \o "' expected " \o t.kind
                    \o ", but received " \o getActualType(v),
                t.kind, getActualType(v)))
    ELSE errors

validateLiteral(v, t, path, errors) ==
    IF v # t.value
    THEN Append(errors,
            LiteralMismatch(path,
                "'" \o PathOrRoot(path) \o "' expected "
                    \o JSONStringify(t.value) \o ", but received "
                    \o JSONStringify(v),
                JSONStringify(t.value), v))
    ELSE errors

RECURSIVE validateValue(_, _, _, _, _)
RECURSIVE forEachElement(_, _, _, _, _, _)
RECURSIVE checkDefinedProps(_, _, _, _, _, _)
RECURSIVE matchUnion(_, _, _, _, _)
RECURSIVE validateMembers(_, _, _, _, _, _)

\* mutant: the loop over the elements stops at the first failing element
forEachElement_StopAtFirst(items, elementType, i, path, errors, options) ==
    IF i > Len(items) THEN errors
    ELSE LET next == validateValue(items[i], elementType,
                                   ElementPath(path, i - 1), errors, options)
         IN IF Len(next) > Len(errors) THEN next
            ELSE forEachElement(items, elementType, i + 1, path, next,
                                options)

\* value.forEach((item, index) => validateValue(item, elementType, ...)),
\* from the 1-based position i on
forEachElement(items, elementType, i, path, errors, options) ==
    IF i > Len(items) THEN errors
    ELSE forEachElement(items, elementType, i + 1, path,
            validateValue(items[i], elementType, ElementPath(path, i - 1),
                          errors, options),
            options)

validateArray(v, t, path, errors, options) ==
    IF ~IsArray(v)
    THEN Append(errors,
            TypeMismatch(path,
                "'" \o PathOrRoot(path)
                    \o "' expected array, but received " \o getActualType(v),
                "array", getActualType(v)))
    ELSE forEachElement(v.items, t.elementType, 1, path, errors, options)

\* mutant: an absent optional property is reported like a required one
checkDefinedProp_OptionalReported(obj, prop, path, errors, options) ==
    IF ~HasKey(obj, prop.name)
    THEN Append(errors, MissingProperty(PropPath(path, prop.name),
                                        typeInfoToString(prop.type)))
    ELSE validateValue(Get(obj, prop.name), prop.type,
                       PropPath(path, prop.name), errors, options)

\* mutant: a key whose value is null counts as absent
checkDefinedProp_NullAbsent(obj, prop, path, errors, options) ==
    IF ~HasKey(obj, prop.name) \/ Get(obj, prop.name) = Null
    THEN IF ~prop.optional
         THEN Append(errors, MissingProperty(PropPath(path, prop.name),
                                             typeInfoToString(prop.type)))
         ELSE errors
    ELSE validateValue(Get(obj, prop.name), prop.type,
                       PropPath(path, prop.name), errors, options)

\* one declared property: MISSING_PROPERTY, nothing, or the nested validation
checkDefinedProp(obj, prop, path, errors, options) ==
    IF ~HasKey(obj, prop.name)
    THEN IF ~prop.optional
         THEN Append(errors, MissingProperty(PropPath(path, prop.name),
                                             typeInfoToString(prop.type)))
         ELSE errors
    ELSE validateValue(Get(obj, prop.name), prop.type,
                       PropPath(path, prop.name), errors, options)

\* for (const prop of typeInfo.properties) { ... }, from position i on
checkDefinedProps(obj, properties, i, path, errors, options) ==
    IF i > Len(properties) THEN errors
    ELSE checkDefinedProps(obj, properties, i + 1, path,
            checkDefinedProp(obj, properties[i], path, errors, options),
            options)

\* definedProps after the loop over the declared properties
definedProps(properties) ==
    {properties[i].name : i \in 1..Len(properties)}

RECURSIVE checkExtraPropsFrom(_, _, _, _, _)
\* for (const key of Object.keys(obj)) { ... }, from position i on
checkExtraPropsFrom(obj, defined, i, path, errors) ==
    IF i > Len(obj.keys) THEN errors
    ELSE checkExtraPropsFrom(obj, defined, i + 1, path,
            IF obj.keys[i] \notin defined
            THEN Append(errors, ExtraProperty(PropPath(path, obj.keys[i])))
            ELSE errors)

\* if (!options.allowExtraProps) { ... }
checkExtraProps(obj, defined, path, errors, options) ==
    IF ~allowExtraProps(options)
    THEN checkExtraPropsFrom(obj, defined, 1, path, errors)
    ELSE errors

\* mutant: the extra properties are reported before the declared ones
validateObject_ExtrasFirst(v, t, path, errors, options) ==
    IF TypeOf(v) # "object" \/ v = Null \/ IsArray(v)
    THEN Append(errors,
            TypeMismatch(path,
                "'" \o PathOrRoot(path)
                    \o "' expected object, but received " \o getActualType(v),
                "object", getActualType(v)))
    ELSE checkDefinedProps(v, t.properties, 1, path,
            checkExtraProps(v, definedProps(t.properties), path, errors,
                            options),
            options)

validateObject(v, t, path, errors, options) ==
    IF TypeOf(v) # "object" \/ v = Null \/ IsArray(v)
    THEN Append(errors,
            TypeMismatch(path,
                "'" \o PathOrRoot(path)
                    \o "' expected object, but received " \o getActualType(v),
                "object", getActualType(v)))
    ELSE checkExtraProps(v, definedProps(t.properties), path,
            checkDefinedProps(v, t.properties, 1, path, errors, options),
            options)

\* the loop over typeInfo.types of the union case, from position i on:
\* TRUE iff a member leaves typeErrors empty (break at the first one)
matchUnion(v, types, i, path, options) ==
    IF i > Len(types) THEN FALSE
    ELSE IF Len(validateValue(v, types[i], path, <<>>, options)) = 0
         THEN TRUE
         ELSE matchUnion(v, types, i + 1, path, options)

\* mutant: a failed union surfaces the errors of its first member
validateUnion_MemberErrors(v, t, path, errors, options) ==
    IF ~matchUnion(v, t.types, 1, path, options)
    THEN IF Len(t.types) > 0
         THEN validateValue(v, t.types[1], path, errors, options)
         ELSE errors
    ELSE errors

validateUnion(v, t, path, errors, options) ==
    IF ~matchUnion(v, t.types, 1, path, options)
    THEN Append(errors,
            TypeMismatch(path,
                "'" \o PathOrRoot(path) \o "' expected one of "
                    \o typeInfoToString(t) \o ", but received "
                    \o getActualType(v),
                typeInfoToString(t), getActualType(v)))
    ELSE errors

\* mutant: the loop over the members stops at the first failing member
validateMembers_StopAtFirst(v, types, i, path, errors, options) ==
    IF i > Len(types) THEN errors
    ELSE LET next == validateValue(v, types[i], path, errors, options)
         IN IF Len(next) > Len(errors) THEN next
            ELSE validateMembers(v, types, i + 1, path, next, options)

\* for (const intersectionType of typeInfo.types) { ... }, from position i on
validateMembers(v, types, i, path, errors, options) ==
    IF i > Len(types) THEN errors
    ELSE validateMembers(v, types, i + 1, path,
            validateValue(v, types[i], path, errors, options), options)

validateIntersection(v, t, path, errors, options) ==
    validateMembers(v, t.types, 1, path, errors, options)

validateValue(v, t, path, errors, options) ==
    CASE t.kind \in {"string", "number", "boolean", "null", "undefined"} ->
            validatePrimitive(v, t, path, errors)
      [] t.kind \in {"any", "unknown"} -> errors
      [] t.kind = "literal" -> validateLiteral(v, t, path, errors)
      [] t.kind = "array" -> validateArray(v, t, path, errors, options)
      [] t.kind = "object" -> validateObject(v, t, path, errors, options)
      [] t.kind = "union" -> validateUnion(v, t, path, errors, options)
      [] t.kind = "intersection" ->
            validateIntersection(v, t, path, errors, options)

\* validate(value, typeInfo, options = {}, path = "")
validate(v, t, options, path) == validateValue(v, t, path, <<>>, options)

-----------------------------------------------------------------------------
(* The inputs of validate *)

MaxArrayLen == 3
MaxObjectArrayLen == 2
MaxMembers == 2

Keys == {"a", "b"}

\* the key orders of an object over Keys
KeySeqs == {<<>>, <<"a">>, <<"b">>, <<"a", "b">>, <<"b", "a">>}

ArraysOf(V, n) == UNION {{Arr(s) : s \in [1..m -> V]} : m \in 0..n}
ObjectsOver(ks, V) == UNION {{Obj(k, vs) : vs \in [1..Len(k) -> V]} : k \in ks}

ScalarValues == {Str("x"), Num(1), Bool(TRUE), Null, Undefined}
ElementValues == {Num(1), Str("two"), Num(3)}
InnerObjects ==
    {Obj(<<"b">>, <<Str("x")>>), Obj(<<"b">>, <<Num(1)>>),
     Obj(<<"b", "a">>, <<Num(1), Str("x")>>)}
PropertyValues ==
    {Str("x"), Null, Arr(<<Num(1), Str("two")>>),
     Obj(<<"b">>, <<Str("x")>>), Obj(<<"b", "a">>, <<Num(1), Num(1)>>)}

Values ==
    ScalarValues
        \cup ArraysOf(ElementValues, MaxArrayLen)
        \cup ArraysOf(InnerObjects, MaxObjectArrayLen)
        \cup ObjectsOver(KeySeqs, PropertyValues)
        \cup ObjectsOver({<<"c", "b", "a">>}, {Str("x"), Num(1)})

PrimitiveTypes == {TString, TNumber, TBoolean, TNull, TUndefined}
ScalarTypes ==
    PrimitiveTypes \cup {TAny, TUnknown, TLiteral(Str("x")), TLiteral(Num(2))}
InnerObjectTypes ==
    {TObject(<<Prop("b", TNumber, FALSE)>>),
     TObject(<<Prop("a", TString, TRUE), Prop("b", TString, FALSE)>>)}
PropertyTypes ==
    {TString, TArray(TNumber), TUnion(<<TNumber, TNull>>)}
        \cup InnerObjectTypes
MemberTypes ==
    {TString, TNumber, TObject(<<Prop("a", TString, FALSE)>>),
     TObject(<<Prop("b", TNumber, TRUE)>>), TArray(TNumber)}

PropsOver(names, T) ==
    {[i \in 1..Len(names) |-> Prop(names[i], ps[i][1], ps[i][2])] :
        ps \in [1..Len(names) -> T \X BOOLEAN]}
ObjectTypes == UNION {{TObject(ps) : ps \in PropsOver(k, PropertyTypes)} : k \in KeySeqs}
MemberSeqs == UNION {[1..m -> MemberTypes] : m \in 0..MaxMembers}

Types ==
    ScalarTypes
        \cup {TArray(t) : t \in ScalarTypes \cup InnerObjectTypes \cup MemberTypes}
        \cup ObjectTypes
        \cup {TUnion(ts) : ts \in MemberSeqs}
        \cup {TIntersection(ts) : ts \in MemberSeqs}
        \cup {TObject(<<Prop("a", TUnion(<<m, TNull>>), FALSE)>>) : m \in InnerObjectTypes}

-----------------------------------------------------------------------------
(* The calls of validate on one (value, typeInfo) pair *)

\* the three ways of passing options: validate(v, t), validate(v, t,
\* {allowExtraProps: false}) and validate(v, t, {allowExtraProps: true})
Calls == {"default", "strict", "lenient"}
OptionsOf(call) ==
    CASE call = "default" -> NoOptions
      [] call = "strict" -> StrictOptions
      [] call = "lenient" -> LenientOptions

ValidateInit ==
    /\ value \in Values
    /\ typeInfo \in Types
    /\ called = {}
    /\ results = [c \in Calls |-> <<>>]

\* validate(value, typeInfo): options takes its default {}
ValidateDefault ==
    /\ "default" \notin called
    /\ called' = called \cup {"default"}
    /\ results' = [results EXCEPT
                      !["default"] = validate(value, typeInfo, NoOptions, "")]
    /\ UNCHANGED <<value, typeInfo, yamlVars, tomlVars, frontmatterVars,
                   commentVars, lintVars, extractorVars>>

\* validate(value, typeInfo, {allowExtraProps: ...})
ValidateWithOptions(call) ==
    /\ call \notin called
    /\ called' = called \cup {call}
    /\ results' = [results EXCEPT
                      ![call] = validate(value, typeInfo, OptionsOf(call), "")]
    /\ UNCHANGED <<value, typeInfo, yamlVars, tomlVars, frontmatterVars,
                   commentVars, lintVars, extractorVars>>

\* the state of a component that is not called
ValidateIdle ==
    /\ value = Null
    /\ typeInfo = TAny
    /\ called = {}
    /\ results = [c \in Calls |-> <<>>]

YamlIdle ==
    /\ yamlInput = <<>>
    /\ yamlPc = "idle"
    /\ yamlResult = Obj(<<>>, <<>>)

TomlIdle ==
    /\ tomlInput = <<>>
    /\ tomlPc = "idle"
    /\ tomlResult = Obj(<<>>, <<>>)

FrontmatterIdle ==
    /\ document = <<>>
    /\ frontmatterPc = "idle"
    /\ frontmatter = Null

CommentIdle ==
    /\ commentLine = <<>>
    /\ commentPc = "idle"
    /\ typeComment = Null

ConvertIdle ==
    /\ typeGraph = <<>>
    /\ convPc = "idle"
    /\ convCalls = 0
    /\ foundType = 0
    /\ convStack = <<>>
    /\ visited = {}
    /\ convResult = Null

CacheIdle ==
    /\ tasks = <<>>
    /\ taskPc = <<>>
    /\ programCache = <<>>
    /\ created = <<>>

ExtractorIdle == ConvertIdle /\ CacheIdle

LintIdle ==
    /\ lintEnv = Null
    /\ lintPc = "idle"
    /\ lintOptions = NoOptions
    /\ lintProbes = <<>>
    /\ lintResult = Null

Init ==
    /\ ValidateInit
    /\ YamlIdle
    /\ TomlIdle
    /\ FrontmatterIdle
    /\ CommentIdle
    /\ LintIdle
    /\ ExtractorIdle

Next ==
    \/ ValidateDefault
    \/ \E call \in {"strict", "lenient"} : ValidateWithOptions(call)

Spec == Init /\ [][Next]_vars

-----------------------------------------------------------------------------
(* parser/yaml.ts.  A text is a sequence of characters (strings of length  *)
(* one); line and character positions are 1-based where the code's are     *)
(* 0-based.                                                                *)

Whitespace == {" ", "\t"}
Digits == {"0", "1", "2", "3", "4", "5", "6", "7", "8", "9"}

RECURSIVE ToStr(_)
\* the string made of the characters
ToStr(chars) == IF Len(chars) = 0 THEN "" ELSE Head(chars) \o ToStr(Tail(chars))

RECURSIVE TrimStart(_)
TrimStart(chars) ==
    IF Len(chars) > 0 /\ Head(chars) \in Whitespace
    THEN TrimStart(Tail(chars)) ELSE chars

RECURSIVE TrimEnd(_)
TrimEnd(chars) ==
    IF Len(chars) > 0 /\ chars[Len(chars)] \in Whitespace
    THEN TrimEnd(SubSeq(chars, 1, Len(chars) - 1)) ELSE chars

\* String.prototype.trim
Trim(chars) == TrimEnd(TrimStart(chars))

\* chars.startsWith(c), chars.endsWith(c), chars.includes(c) for one character
StartsWith(chars, c) == Len(chars) > 0 /\ chars[1] = c
EndsWith(chars, c) == Len(chars) > 0 /\ chars[Len(chars)] = c
Includes(chars, c) == \E i \in 1..Len(chars) : chars[i] = c

\* the 1-based position of the first c in chars, 0 when there is none
\* (indexOf + 1)
IndexOf(chars, c) ==
    IF Includes(chars, c)
    THEN CHOOSE i \in 1..Len(chars) :
            chars[i] = c /\ \A j \in 1..(i - 1) : chars[j] # c
    ELSE 0

RECURSIVE SplitLines(_)
\* input.split(/\r?\n/)
SplitLines(text) ==
    LET nl == IndexOf(text, "\n")
    IN IF nl = 0 THEN <<text>>
       ELSE LET line == SubSeq(text, 1, nl - 1)
            IN <<IF EndsWith(line, "\r")
                 THEN SubSeq(line, 1, Len(line) - 1) ELSE line>>
               \o SplitLines(SubSeq(text, nl + 1, Len(text)))

RECURSIVE currentLine(_, _)
\* currentLine(ctx): the position ctx.index is left at, Len(lines) + 1 when
\* the function returns null
currentLine(lines, index) ==
    IF index > Len(lines) THEN index
    ELSE IF Trim(lines[index]) = <<>> \/ StartsWith(Trim(lines[index]), "#")
         THEN currentLine(lines, index + 1)
         ELSE index

\* the leading run of whitespace is not counted: every line is at indent 0
getIndent_NoIndent(line) == 0

\* getIndent(line)
getIndent(line) == Len(line) - Len(TrimStart(line))

AllDigits(chars) ==
    Len(chars) > 0 /\ \A i \in 1..Len(chars) : chars[i] \in Digits

DigitValue(c) == CHOOSE n \in 0..9 : ToString(n) = c

RECURSIVE DigitsValue(_)
DigitsValue(chars) ==
    IF Len(chars) = 0 THEN 0
    ELSE 10 * DigitsValue(SubSeq(chars, 1, Len(chars) - 1))
            + DigitValue(chars[Len(chars)])

\* /^-?\d+$/.test(value)
IsIntegerToken(chars) ==
    IF StartsWith(chars, "-") THEN AllDigits(Tail(chars)) ELSE AllDigits(chars)

\* /^-?\d+\.\d+$/.test(value)
IsDecimalToken(chars) ==
    LET body == IF StartsWith(chars, "-") THEN Tail(chars) ELSE chars
        dot == IndexOf(body, ".")
    IN /\ dot > 0
       /\ AllDigits(SubSeq(body, 1, dot - 1))
       /\ AllDigits(SubSeq(body, dot + 1, Len(body)))

\* /^\d{4}-\d{2}-\d{2}/.test(value)
IsDateToken(chars) ==
    /\ Len(chars) >= 10
    /\ \A i \in {1, 2, 3, 4, 6, 7, 9, 10} : chars[i] \in Digits
    /\ chars[5] = "-"
    /\ chars[8] = "-"

\* parseInt(value, 10) for a value that matches /^-?\d+$/
parseInt(chars) ==
    IF StartsWith(chars, "-") THEN Num(0 - DigitsValue(Tail(chars)))
    ELSE Num(DigitsValue(chars))

\* parseFloat(value) for a value that matches /^-?\d+\.\d+$/
parseFloat(chars) ==
    LET neg == StartsWith(chars, "-")
        body == IF neg THEN Tail(chars) ELSE chars
        dot == IndexOf(body, ".")
        frac == SubSeq(body, dot + 1, Len(body))
        m == DigitsValue(SubSeq(body, 1, dot - 1)) * Pow10(Len(frac))
                + DigitsValue(frac)
    IN Decimal(IF neg THEN 0 - m ELSE m, Len(frac))

parseScalar(chars) ==
    IF chars \in {<<"n", "u", "l", "l">>, <<"~">>, <<>>} THEN Null
    ELSE IF chars \in {<<"t", "r", "u", "e">>, <<"T", "r", "u", "e">>,
                       <<"T", "R", "U", "E">>} THEN Bool(TRUE)
    ELSE IF chars \in {<<"f", "a", "l", "s", "e">>, <<"F", "a", "l", "s", "e">>,
                       <<"F", "A", "L", "S", "E">>} THEN Bool(FALSE)
    ELSE IF \/ StartsWith(chars, "\"") /\ EndsWith(chars, "\"")
            \/ StartsWith(chars, "'") /\ EndsWith(chars, "'")
         THEN Str(ToStr(SubSeq(chars, 2, Len(chars) - 1)))
    ELSE IF IsIntegerToken(chars) THEN parseInt(chars)
    ELSE IF IsDecimalToken(chars) THEN parseFloat(chars)
    ELSE IF IsDateToken(chars) THEN Str(ToStr(chars))
    ELSE Str(ToStr(chars))

\* obj[key] = val: a present key keeps its place, a new key goes last (keys
\* that are array indices, which JavaScript iterates first, are not modelled)
SetKey(obj, key, val) ==
    IF HasKey(obj, key)
    THEN Obj(obj.keys, [i \in 1..Len(obj.keys) |->
                           IF obj.keys[i] = key THEN val ELSE obj.vals[i]])
    ELSE Obj(Append(obj.keys, key), Append(obj.vals, val))

\* the text before the first ':' of a trimmed line, and the text after it
KeyOf(trimmed) == ToStr(Trim(SubSeq(trimmed, 1, IndexOf(trimmed, ":") - 1)))
ValueStrOf(trimmed) ==
    Trim(SubSeq(trimmed, IndexOf(trimmed, ":") + 1, Len(trimmed)))

\* what a parse function returns and where it leaves ctx.index
Parsed(v, index) == [value |-> v, index |-> index]

RECURSIVE parseObjectFrom(_, _, _, _)
RECURSIVE parseArrayFrom(_, _, _, _)
RECURSIVE followingProps(_, _, _, _)

\* parseObject(ctx, baseIndent), ctx.index being index
parseObject(lines, index, baseIndent) ==
    parseObjectFrom(lines, index, baseIndent, Obj(<<>>, <<>>))

\* parseArray(ctx, baseIndent), ctx.index being index
parseArray(lines, index, baseIndent) ==
    parseArrayFrom(lines, index, baseIndent, <<>>)

\* one round of the while (true) of parseObject, result being built
parseObjectFrom(lines, index, baseIndent, result) ==
    LET at == currentLine(lines, index)
    IN IF at > Len(lines) THEN Parsed(result, at)
       ELSE LET line == lines[at]
                indent == getIndent(line)
                trimmed == Trim(line)
            IN IF indent < baseIndent \/ indent > baseIndent
                  \/ IndexOf(trimmed, ":") = 0
               THEN Parsed(result, at)
               ELSE LET key == KeyOf(trimmed)
                        valueStr == ValueStrOf(trimmed)
                        next == currentLine(lines, at + 1)
                    IN IF valueStr = <<>>
                       THEN IF next > Len(lines)
                            THEN parseObjectFrom(lines, next, baseIndent,
                                    SetKey(result, key, Null))
                            ELSE IF getIndent(lines[next]) > indent
                            THEN LET nested ==
                                       IF StartsWith(Trim(lines[next]), "-")
                                       THEN LET a == parseArray(lines, next,
                                                        getIndent(lines[next]))
                                            IN Parsed(Arr(a.value), a.index)
                                       ELSE parseObject(lines, next,
                                                        getIndent(lines[next]))
                                 IN parseObjectFrom(lines, nested.index,
                                        baseIndent,
                                        SetKey(result, key, nested.value))
                            ELSE parseObjectFrom(lines, next, baseIndent,
                                    SetKey(result, key, Null))
                       ELSE parseObjectFrom(lines, at + 1, baseIndent,
                                SetKey(result, key, parseScalar(valueStr)))

\* the loop "Check for following properties" of parseArray
followingProps(lines, index, baseIndent, obj) ==
    LET at == currentLine(lines, index)
    IN IF at > Len(lines) THEN Parsed(obj, at)
       ELSE LET nextTrimmed == Trim(lines[at])
            IN IF \/ getIndent(lines[at]) <= baseIndent
                  \/ StartsWith(nextTrimmed, "-")
                  \/ ~Includes(nextTrimmed, ":")
               THEN Parsed(obj, at)
               ELSE followingProps(lines, at + 1, baseIndent,
                        SetKey(obj, KeyOf(nextTrimmed),
                               IF ValueStrOf(nextTrimmed) = <<>> THEN Null
                               ELSE parseScalar(ValueStrOf(nextTrimmed))))

\* one round of the while (true) of parseArray, result being built
parseArrayFrom(lines, index, baseIndent, result) ==
    LET at == currentLine(lines, index)
    IN IF at > Len(lines) THEN Parsed(result, at)
       ELSE LET line == lines[at]
                indent == getIndent(line)
                trimmed == Trim(line)
            IN IF indent < baseIndent \/ indent > baseIndent
                  \/ ~StartsWith(trimmed, "-")
               THEN Parsed(result, at)
               ELSE LET afterDash == Trim(Tail(trimmed))
                        next == currentLine(lines, at + 1)
                    IN IF afterDash = <<>>
                       THEN IF next > Len(lines)
                            THEN parseArrayFrom(lines, next, baseIndent,
                                                Append(result, Null))
                            ELSE IF getIndent(lines[next]) > indent
                            THEN IF Includes(Trim(lines[next]), ":")
                                 THEN LET o == parseObject(lines, next,
                                                    getIndent(lines[next]))
                                      IN parseArrayFrom(lines, o.index,
                                            baseIndent, Append(result, o.value))
                                 ELSE parseArrayFrom(lines, next + 1, baseIndent,
                                        Append(result,
                                               parseScalar(Trim(lines[next]))))
                            ELSE parseArrayFrom(lines, next, baseIndent,
                                                Append(result, Null))
                       ELSE IF Includes(afterDash, ":")
                       THEN LET value0 == ValueStrOf(afterDash)
                                obj == followingProps(lines, at + 1, baseIndent,
                                          Obj(<<KeyOf(afterDash)>>,
                                              <<IF value0 = <<>> THEN Null
                                                ELSE parseScalar(value0)>>))
                            IN parseArrayFrom(lines, obj.index, baseIndent,
                                              Append(result, obj.value))
                       ELSE parseArrayFrom(lines, at + 1, baseIndent,
                                Append(result, parseScalar(afterDash)))

\* parseYaml(input)
parseYaml(text) == parseObject(SplitLines(text), 1, 0).value

-----------------------------------------------------------------------------
(* The inputs of parseYaml and the call *)

MaxTokenLen == 3

Chars(str) ==
    CASE str = "null" -> <<"n", "u", "l", "l">>
      [] str = "Null" -> <<"N", "u", "l", "l">>
      [] str = "true" -> <<"t", "r", "u", "e">>
      [] str = "True" -> <<"T", "r", "u", "e">>
      [] str = "TRUE" -> <<"T", "R", "U", "E">>
      [] str = "tRUE" -> <<"t", "R", "U", "E">>
      [] str = "false" -> <<"f", "a", "l", "s", "e">>
      [] str = "False" -> <<"F", "a", "l", "s", "e">>
      [] str = "FALSE" -> <<"F", "A", "L", "S", "E">>
      [] str = "2024-01-01" ->
            <<"2", "0", "2", "4", "-", "0", "1", "-", "0", "1">>
      [] str = "2024-01-01T12:00:00Z" ->
            <<"2", "0", "2", "4", "-", "0", "1", "-", "0", "1", "T",
              "1", "2", ":", "0", "0", ":", "0", "0", "Z">>
      [] str = "3.14" -> <<"3", ".", "1", "4">>
      [] str = "-10" -> <<"-", "1", "0">>
      [] str = "\"42\"" -> <<"\"", "4", "2", "\"">>
      [] str = "'true'" -> <<"'", "t", "r", "u", "e", "'">>
      [] str = "\"null\"" -> <<"\"", "n", "u", "l", "l", "\"">>
      [] str = "\"a:b\"" -> <<"\"", "a", ":", "b", "\"">>
      [] str = "Hello World" ->
            <<"H", "e", "l", "l", "o", " ", "W", "o", "r", "l", "d">>

NamedTokens ==
    {Chars(str) : str \in
        {"null", "Null", "true", "True", "TRUE", "tRUE", "false", "False",
         "FALSE", "2024-01-01", "2024-01-01T12:00:00Z", "3.14", "-10",
         "\"42\"", "'true'", "\"null\"", "\"a:b\"", "Hello World"}}

TokenAlphabet == {"1", "0", "-", ".", "\"", "'", "a", "~"}

\* the scalar tokens: no whitespace at either end
Tokens ==
    UNION {[1..n -> TokenAlphabet] : n \in 0..MaxTokenLen} \cup NamedTokens

\* "k: <token>\n" : the token in mapping-value position
MappingDoc(token) == <<"k", ":", " ">> \o token \o <<"\n">>

\* "k:\n  - <token>\n" : the token in sequence-item position
SequenceDoc(token) ==
    <<"k", ":", "\n", " ", " ", "-", " ">> \o token \o <<"\n">>

\* Block documents.  An entry of a mapping is a scalar, a block sequence of
\* scalar items, a block mapping of scalar entries, or a block mapping
\* whose first entry is itself a block mapping; indent is the indentation
\* the nested lines are written at, relative to the key line.
MaxBlockLen == 2

BlockTokens == {<<"x">>, <<"1">>}
BlockIndents == {1, 2}
NestedKeys == <<"a", "b", "c">>
TopKeys == <<"k", "z">>

Spaces(n) == [i \in 1..n |-> " "]

\* "<key>: <token>" or "<key>:" at the indentation, with its line end
KeyLine(indent, key, token) ==
    Spaces(indent) \o <<key, ":">>
        \o (IF token = <<>> THEN <<>> ELSE <<" ">> \o token) \o <<"\n">>

\* "- <token>" at the indentation, with its line end
ItemLine(indent, token) ==
    Spaces(indent) \o <<"-", " ">> \o token \o <<"\n">>

ScalarEntry(token) == [kind |-> "scalar", token |-> token]
SequenceEntry(indent, tokens) ==
    [kind |-> "sequence", indent |-> indent, tokens |-> tokens]
MappingEntry(indent, tokens) ==
    [kind |-> "mapping", indent |-> indent, tokens |-> tokens]
DeepEntry(indent, token) ==
    [kind |-> "deep", indent |-> indent, token |-> token]

TokenSeqs == UNION {[1..n -> BlockTokens] : n \in 1..MaxBlockLen}

Entries ==
    {ScalarEntry(t) : t \in BlockTokens}
        \cup {SequenceEntry(n, ts) : n \in BlockIndents, ts \in TokenSeqs}
        \cup {MappingEntry(n, ts) : n \in BlockIndents, ts \in TokenSeqs}
        \cup {DeepEntry(n, t) : n \in BlockIndents, t \in BlockTokens}

RECURSIVE ConcatAll(_)
ConcatAll(seqs) ==
    IF Len(seqs) = 0 THEN <<>> ELSE Head(seqs) \o ConcatAll(Tail(seqs))

\* the lines of one entry written under the key at the indentation at
RenderEntry(at, key, e) ==
    CASE e.kind = "scalar" -> KeyLine(at, key, e.token)
      [] e.kind = "sequence" ->
            KeyLine(at, key, <<>>)
                \o ConcatAll([i \in 1..Len(e.tokens) |->
                                ItemLine(at + e.indent, e.tokens[i])])
      [] e.kind = "mapping" ->
            KeyLine(at, key, <<>>)
                \o ConcatAll([i \in 1..Len(e.tokens) |->
                                KeyLine(at + e.indent, NestedKeys[i],
                                        e.tokens[i])])
      [] e.kind = "deep" ->
            KeyLine(at, key, <<>>)
                \o KeyLine(at + e.indent, "m", <<>>)
                \o KeyLine(at + 2 * e.indent, "a", e.token)
                \o KeyLine(at + e.indent, "b", e.token)

\* the document whose top-level keys are TopKeys, in order, one per entry
BlockDoc(entries) ==
    ConcatAll([i \in 1..Len(entries) |-> RenderEntry(0, TopKeys[i], entries[i])])

BlockDescs == UNION {[1..n -> Entries] : n \in 1..Len(TopKeys)}

BlockDocs == {BlockDoc(d) : d \in BlockDescs}

\* Malformed documents: under the key k a block mapping of scalar entries
\* (depth 1), or a block mapping m inside it (depth 2), in which a line
\* without ':' follows the entries; after it the key b of the mapping of k
\* (depth 2) and the top-level key z, when after is a token
NoToken == <<>>

MalformedDesc(depth, indent, tokens, after) ==
    [depth |-> depth, indent |-> indent, tokens |-> tokens, after |-> after]

MalformedDescs ==
    {MalformedDesc(depth, n, ts, after) :
        depth \in {1, 2}, n \in BlockIndents, ts \in TokenSeqs,
        after \in BlockTokens \cup {NoToken}}

\* a significant line that holds no ':'
MalformedLine(indent) == Spaces(indent) \o <<"j", "\n">>

MalformedDoc(d) ==
    KeyLine(0, "k", <<>>)
        \o (IF d.depth = 2 THEN KeyLine(d.indent, "m", <<>>) ELSE <<>>)
        \o ConcatAll([i \in 1..Len(d.tokens) |->
                        KeyLine(d.depth * d.indent, NestedKeys[i],
                                d.tokens[i])])
        \o MalformedLine(d.depth * d.indent)
        \o (IF d.after = NoToken THEN <<>>
            ELSE (IF d.depth = 2 THEN KeyLine(d.indent, "b", d.after)
                  ELSE <<>>)
                    \o KeyLine(0, "z", d.after))

MalformedDocs == {MalformedDoc(d) : d \in MalformedDescs}

\* Flush documents: the key k with an empty value, its '- item' lines
\* written at the indentation of the key, and the key z when after is a
\* token
FlushDesc(tokens, after) == [tokens |-> tokens, after |-> after]

FlushDescs ==
    {FlushDesc(ts, after) :
        ts \in TokenSeqs, after \in BlockTokens \cup {NoToken}}

FlushDoc(d) ==
    KeyLine(0, "k", <<>>)
        \o ConcatAll([i \in 1..Len(d.tokens) |-> ItemLine(0, d.tokens[i])])
        \o (IF d.after = NoToken THEN <<>> ELSE KeyLine(0, "z", d.after))

FlushDocs == {FlushDoc(d) : d \in FlushDescs}

YamlInputs ==
    {MappingDoc(t) : t \in Tokens} \cup {SequenceDoc(t) : t \in Tokens}
        \cup BlockDocs \cup MalformedDocs \cup FlushDocs

YamlInit ==
    /\ yamlInput \in YamlInputs
    /\ yamlPc = "ready"
    /\ yamlResult = Obj(<<>>, <<>>)
    /\ ValidateIdle
    /\ TomlIdle
    /\ FrontmatterIdle
    /\ CommentIdle
    /\ LintIdle
    /\ ExtractorIdle

\* const result = parseYaml(input)
ParseYaml ==
    /\ yamlPc = "ready"
    /\ yamlResult' = parseYaml(yamlInput)
    /\ yamlPc' = "done"
    /\ UNCHANGED <<yamlInput, validateVars, tomlVars, frontmatterVars,
                   commentVars, lintVars, extractorVars>>

YamlNext == ParseYaml

SpecYaml == YamlInit /\ [][YamlNext]_vars

-----------------------------------------------------------------------------
(* parser/toml.ts.  parseToml returns the mapping, or TypeError when the   *)
(* call ends with that exception.  The table the code holds a reference to *)
(* (currentTable) is the value at currentTablePath in result.              *)

TypeError == [tag |-> "TypeError"]

\* typeof v is neither "object" nor "function": key in v throws, and so does
\* v[key] = x in the strict mode of a module
IsPrimitive(v) == v.tag \notin {"object", "array"}

\* the own non-index properties of an object or of an array
OwnProps(v) ==
    IF v.tag = "object" THEN v
    ELSE IF "keys" \in DOMAIN v THEN Obj(v.keys, v.vals)
    ELSE Obj(<<>>, <<>>)

\* v[key] = val for an object or an array v
SetProp(v, key, val) ==
    LET props == SetKey(OwnProps(v), key, val)
    IN IF v.tag = "object" THEN props
       ELSE [tag |-> "array", items |-> v.items,
             keys |-> props.keys, vals |-> props.vals]

RECURSIVE Split(_, _)
\* chars.split(c) for one character c
Split(chars, c) ==
    LET at == IndexOf(chars, c)
    IN IF at = 0 THEN <<chars>>
       ELSE <<SubSeq(chars, 1, at - 1)>>
                \o Split(SubSeq(chars, at + 1, Len(chars)), c)

RECURSIVE ReplaceEscape(_, _, _)
\* str.replace(/\\c/g, to): every backslash followed by c, left to right
ReplaceEscape(chars, c, to) ==
    IF Len(chars) < 2 THEN chars
    ELSE IF chars[1] = "\\" /\ chars[2] = c
    THEN <<to>> \o ReplaceEscape(SubSeq(chars, 3, Len(chars)), c, to)
    ELSE <<chars[1]>> \o ReplaceEscape(Tail(chars), c, to)

\* parseTomlString(str): the five replace calls in their order
parseTomlString(chars) ==
    ReplaceEscape(
        ReplaceEscape(
            ReplaceEscape(
                ReplaceEscape(ReplaceEscape(chars, "n", "\n"), "t", "\t"),
                "r", "\r"),
            "\\", "\\"),
        "\"", "\"")

RECURSIVE splitFrom(_, _, _, _, _, _, _)
\* the round i of the for loop of splitArrayItems and what follows the loop
splitFrom(chars, i, items, current, depth, inString, stringChar) ==
    IF i > Len(chars)
    THEN IF Trim(current) # <<>> THEN Append(items, current) ELSE items
    ELSE LET char == chars[i]
             prevChar == IF i > 1 THEN chars[i - 1] ELSE ""
             isQuote == char \in {"\"", "'"} /\ prevChar # "\\"
             inString1 ==
                 IF isQuote
                 THEN IF ~inString THEN TRUE ELSE char # stringChar
                 ELSE inString
             stringChar1 == IF isQuote /\ ~inString THEN char ELSE stringChar
             depth1 ==
                 IF inString1 THEN depth
                 ELSE IF char \in {"[", "{"} THEN depth + 1
                 ELSE IF char \in {"]", "}"} THEN depth - 1
                 ELSE depth
         IN IF ~inString1 /\ char = "," /\ depth = 0
            THEN splitFrom(chars, i + 1, Append(items, current), <<>>,
                           depth, inString1, stringChar1)
            ELSE splitFrom(chars, i + 1, items, Append(current, char),
                           depth1, inString1, stringChar1)

\* splitArrayItems(content)
splitArrayItems(chars) == splitFrom(chars, 1, <<>>, <<>>, 0, FALSE, "")

RECURSIVE parseTomlValue(_)
RECURSIVE parseTomlArray(_)
RECURSIVE parseInlineTable(_)
RECURSIVE inlinePairs(_, _, _)

\* parseTomlValue(valueStr)
parseTomlValue(valueStr) ==
    LET trimmed == Trim(valueStr)
        inner == SubSeq(trimmed, 2, Len(trimmed) - 1)
    IN IF trimmed = <<"t", "r", "u", "e">> THEN Bool(TRUE)
       ELSE IF trimmed = <<"f", "a", "l", "s", "e">> THEN Bool(FALSE)
       ELSE IF StartsWith(trimmed, "\"") /\ EndsWith(trimmed, "\"")
       THEN Str(ToStr(parseTomlString(inner)))
       ELSE IF StartsWith(trimmed, "'") /\ EndsWith(trimmed, "'")
       THEN Str(ToStr(inner))
       ELSE IF StartsWith(trimmed, "[") /\ EndsWith(trimmed, "]")
       THEN parseTomlArray(inner)
       ELSE IF StartsWith(trimmed, "{") /\ EndsWith(trimmed, "}")
       THEN parseInlineTable(inner)
       ELSE IF IsIntegerToken(trimmed) THEN parseInt(trimmed)
       ELSE IF IsDecimalToken(trimmed) THEN parseFloat(trimmed)
       ELSE IF IsDateToken(trimmed) THEN Str(ToStr(trimmed))
       ELSE Str(ToStr(trimmed))

\* parseTomlArray(content)
parseTomlArray(content) ==
    IF Trim(content) = <<>> THEN Arr(<<>>)
    ELSE LET items == SelectSeq(splitArrayItems(Trim(content)),
                                LAMBDA item : Trim(item) # <<>>)
         IN Arr([i \in 1..Len(items) |-> parseTomlValue(Trim(items[i]))])

\* the text before the first '=' of a line or pair, and the text after it
TomlKeyOf(chars) == ToStr(Trim(SubSeq(chars, 1, IndexOf(chars, "=") - 1)))
TomlValueStrOf(chars) ==
    Trim(SubSeq(chars, IndexOf(chars, "=") + 1, Len(chars)))

\* the for loop of parseInlineTable from the pair i on; a pair matches
\* /^\s*([^=]+)\s*=\s*(.+)\s*$/ when its first '=' has a character before
\* it and a character after it
inlinePairs(pairs, i, result) ==
    IF i > Len(pairs) THEN result
    ELSE LET pair == pairs[i]
             eq == IndexOf(pair, "=")
         IN IF eq > 1 /\ eq < Len(pair)
            THEN inlinePairs(pairs, i + 1,
                    SetKey(result, TomlKeyOf(pair),
                           parseTomlValue(TomlValueStrOf(pair))))
            ELSE inlinePairs(pairs, i + 1, result)

\* parseInlineTable(content)
parseInlineTable(content) ==
    IF Trim(content) = <<>> THEN Obj(<<>>, <<>>)
    ELSE inlinePairs(splitArrayItems(Trim(content)), 1, Obj(<<>>, <<>>))

\* line.match(/^\[([^\]]+)\]$/)
IsTableHeader(line) ==
    /\ Len(line) >= 3
    /\ StartsWith(line, "[")
    /\ EndsWith(line, "]")
    /\ ~Includes(SubSeq(line, 2, Len(line) - 1), "]")

\* tableMatch[1].split(".").map((s) => s.trim())
TablePath(line) ==
    LET parts == Split(SubSeq(line, 2, Len(line) - 1), ".")
    IN [i \in 1..Len(parts) |-> ToStr(Trim(parts[i]))]

\* line.match(/^([^=]+)=(.*)$/)
IsKeyValue(line) == IndexOf(line, "=") > 1

RECURSIVE ensureTable_Recreates(_, _)
\* current[key] = {} is not guarded: a table already on the path is replaced
ensureTable_Recreates(root, path) ==
    IF Len(path) = 0 THEN root
    ELSE IF IsPrimitive(root) THEN TypeError
    ELSE SetProp(root, Head(path),
                 ensureTable_Recreates(Obj(<<>>, <<>>), Tail(path)))

RECURSIVE ensureTable(_, _)
\* ensureTable(root, path): root after the loop has created the missing
\* tables (the table returned is the value at path), or TypeError when
\* key in current is evaluated on a primitive
ensureTable(root, path) ==
    IF Len(path) = 0 THEN root
    ELSE IF IsPrimitive(root) THEN TypeError
    ELSE LET key == Head(path)
             child == IF HasKey(OwnProps(root), key)
                      THEN Get(OwnProps(root), key)
                      ELSE Obj(<<>>, <<>>)
             ensured == ensureTable(child, Tail(path))
         IN IF ensured = TypeError THEN TypeError
            ELSE SetProp(root, key, ensured)

RECURSIVE assignAt(_, _, _, _)
\* currentTable[key] = value, currentTable being the value at path in root:
\* root after the assignment, or TypeError when currentTable is a primitive
assignAt(root, path, key, val) ==
    IF Len(path) = 0
    THEN IF IsPrimitive(root) THEN TypeError ELSE SetProp(root, key, val)
    ELSE LET assigned == assignAt(Get(OwnProps(root), Head(path)),
                                  Tail(path), key, val)
         IN IF assigned = TypeError THEN TypeError
            ELSE SetProp(root, Head(path), assigned)

RECURSIVE parseTomlFrom(_, _, _, _)
\* the round i of the for loop of parseToml and the return
parseTomlFrom(lines, i, result, currentTablePath) ==
    IF i > Len(lines) THEN result
    ELSE LET line == Trim(lines[i])
         IN IF line = <<>> \/ StartsWith(line, "#")
            THEN parseTomlFrom(lines, i + 1, result, currentTablePath)
            ELSE IF IsTableHeader(line)
            THEN LET ensured == ensureTable(result, TablePath(line))
                 IN IF ensured = TypeError THEN TypeError
                    ELSE parseTomlFrom(lines, i + 1, ensured, TablePath(line))
            ELSE IF IsKeyValue(line)
            THEN LET assigned ==
                       assignAt(result, currentTablePath, TomlKeyOf(line),
                                parseTomlValue(TomlValueStrOf(line)))
                 IN IF assigned = TypeError THEN TypeError
                    ELSE parseTomlFrom(lines, i + 1, assigned,
                                       currentTablePath)
            ELSE parseTomlFrom(lines, i + 1, result, currentTablePath)

\* parseToml(input)
parseToml(text) == parseTomlFrom(SplitLines(text), 1, Obj(<<>>, <<>>), <<>>)

-----------------------------------------------------------------------------
(* The inputs of parseToml and the call *)

MaxTomlLines == 4
MaxItems == 2
MaxContentLen == 3

\* Table documents: lines that are pairs or table headers
PairLine(key, digit) == [kind |-> "pair", key |-> key, digit |-> digit]
HeaderLine(path) == [kind |-> "header", path |-> path]

TomlLines ==
    {PairLine("a", "1"), PairLine("b", "2"),
     HeaderLine(<<"t">>), HeaderLine(<<"t", "u">>), HeaderLine(<<"v">>)}

RECURSIVE JoinChars(_, _)
\* parts.join(sep) on texts
JoinChars(parts, sep) ==
    IF Len(parts) = 0 THEN <<>>
    ELSE IF Len(parts) = 1 THEN parts[1]
    ELSE parts[1] \o sep \o JoinChars(Tail(parts), sep)

\* "<key> = <digit>" and "[<p1>.<p2>]"
RenderTomlLine(l) ==
    IF l.kind = "pair" THEN <<l.key, " ", "=", " ", l.digit>>
    ELSE <<"[">> \o JoinChars([i \in 1..Len(l.path) |-> <<l.path[i]>>], <<".">>)
            \o <<"]">>

TableDescs == UNION {[1..n -> TomlLines] : n \in 1..MaxTomlLines}

TableDoc(d) ==
    ConcatAll([i \in 1..Len(d) |-> RenderTomlLine(d[i]) \o <<"\n">>])

\* Array documents: x = [item, item, ...]; every item carries the value it
\* has as a TOML value
Item(text, val) == [text |-> text, value |-> val]

ArrayItems ==
    {Item(<<"1">>, Num(1)),
     Item(<<"\"", "a", ",", "b", "\"">>, Str("a,b")),
     Item(<<"\"", "a", ",", "[", "b", "\"">>, Str("a,[b")),
     Item(<<"'", "c", ",", "}", "'">>, Str("c,}")),
     Item(<<"[", "1", ",", " ", "2", "]">>, Arr(<<Num(1), Num(2)>>)),
     Item(<<"{", "a", " ", "=", " ", "1", ",", " ", "b", " ", "=", " ", "2",
            "}">>, Obj(<<"a", "b">>, <<Num(1), Num(2)>>)),
     Item(<<"\"", "a", "\\", "\"", ",", "b", "\"">>, Str("a\",b")),
     Item(<<"\"", "a", "\\", "\\", "\"">>, Str("a\\"))}

ItemSeqs == UNION {[1..n -> ArrayItems] : n \in 1..MaxItems}

ArrayDoc(items) ==
    <<"x", " ", "=", " ", "[">>
        \o JoinChars([i \in 1..Len(items) |-> items[i].text], <<",", " ">>)
        \o <<"]", "\n">>

\* String documents: s = "<content>" and s = '<content>'
ContentAlphabet == {"\\", "n", "\"", "a"}

Contents ==
    UNION {[1..n -> ContentAlphabet] : n \in 0..MaxContentLen}
        \cup {<<"\\", "t">>, <<"\\", "r">>,
              <<"C", ":", "\\", "\\", "n", "e", "w">>,
              <<"C", ":", "\\", "\\", "U", "s", "e", "r", "s">>}

StringDoc(quote, chars) ==
    <<"s", " ", "=", " ", quote>> \o chars \o <<quote, "\n">>

\* Recovery documents: pairs, a line that is no comment, header or pair, and
\* headers whose path ends at or passes through the key a of a pair
JunkLine == [kind |-> "junk"]

RecoveryLines ==
    {PairLine("a", "1"), PairLine("b", "2"), JunkLine,
     HeaderLine(<<"a">>), HeaderLine(<<"a", "b">>)}

RenderRecoveryLine(l) ==
    IF l.kind = "junk" THEN <<"x">> ELSE RenderTomlLine(l)

RecoveryDescs == UNION {[1..n -> RecoveryLines] : n \in 1..MaxTomlLines}

RecoveryDoc(d) ==
    ConcatAll([i \in 1..Len(d) |-> RenderRecoveryLine(d[i]) \o <<"\n">>])

TomlInputs ==
    {TableDoc(d) : d \in TableDescs}
        \cup {RecoveryDoc(d) : d \in RecoveryDescs}
        \cup {ArrayDoc(items) : items \in ItemSeqs}
        \cup {StringDoc(q, c) : q \in {"\"", "'"}, c \in Contents}

TomlInit ==
    /\ tomlInput \in TomlInputs
    /\ tomlPc = "ready"
    /\ tomlResult = Obj(<<>>, <<>>)
    /\ ValidateIdle
    /\ YamlIdle
    /\ FrontmatterIdle
    /\ CommentIdle
    /\ LintIdle
    /\ ExtractorIdle

\* const result = parseToml(input)
ParseToml ==
    /\ tomlPc = "ready"
    /\ tomlResult' = parseToml(tomlInput)
    /\ tomlPc' = "done"
    /\ UNCHANGED <<tomlInput, validateVars, yamlVars, frontmatterVars,
                   commentVars, lintVars, extractorVars>>

TomlNext == ParseToml

SpecToml == TomlInit /\ [][TomlNext]_vars

-----------------------------------------------------------------------------
(* parser/type-comment.ts *)

\* a TypeReference
TypeReference(kind, filePath, typeName) ==
    [kind |-> kind, filePath |-> filePath, typeName |-> typeName]

RECURSIVE Words(_)
\* the maximal runs of non-whitespace characters (the \S+ of the patterns)
Words(chars) ==
    LET rest == TrimStart(chars)
    IN IF Len(rest) = 0 THEN <<>>
       ELSE LET ends == {i \in 1..Len(rest) : rest[i] \in Whitespace}
                n == IF ends = {} THEN Len(rest)
                     ELSE (CHOOSE i \in ends : \A j \in ends : i <= j) - 1
            IN <<SubSeq(rest, 1, n)>> \o Words(SubSeq(rest, n + 1, Len(rest)))

AtType == <<"@", "t", "y", "p", "e">>
AtZod == <<"@", "z", "o", "d">>
AtJsonSchema == <<"@", "j", "s", "o", "n", "s", "c", "h", "e", "m", "a">>

\* trimmed.match(/^#\s*<directive>(\s+(\S+)){n}\s*$/): the words after '#'
\* are the directive and n more
MatchComment(trimmed, directive, n) ==
    /\ StartsWith(trimmed, "#")
    /\ Len(Words(Tail(trimmed))) = n + 1
    /\ Words(Tail(trimmed))[1] = directive

\* the capture group i of a matching line
Capture(trimmed, i) == ToStr(Words(Tail(trimmed))[i + 1])

\* the line is matched as it is given: leading whitespace is not removed
parseTypeComment_NoTrim(line) ==
    IF MatchComment(line, AtType, 2)
    THEN TypeReference("typescript", Capture(line, 1), Capture(line, 2))
    ELSE IF MatchComment(line, AtZod, 2)
    THEN TypeReference("zod", Capture(line, 1), Capture(line, 2))
    ELSE IF MatchComment(line, AtJsonSchema, 1)
    THEN TypeReference("jsonschema", Capture(line, 1), "")
    ELSE Null

\* parseTypeComment(line)
parseTypeComment(line) ==
    LET trimmed == Trim(line)
    IN IF MatchComment(trimmed, AtType, 2)
       THEN TypeReference("typescript", Capture(trimmed, 1),
                          Capture(trimmed, 2))
       ELSE IF MatchComment(trimmed, AtZod, 2)
       THEN TypeReference("zod", Capture(trimmed, 1), Capture(trimmed, 2))
       ELSE IF MatchComment(trimmed, AtJsonSchema, 1)
       THEN TypeReference("jsonschema", Capture(trimmed, 1), "")
       ELSE Null

-----------------------------------------------------------------------------
(* The inputs of parseTypeComment and the call *)

MaxArgs == 3

AtSchema == <<"@", "s", "c", "h", "e", "m", "a">>

\* the first word after '#': the three directives, @schema, a directive in
\* other letters, and the first word of an ordinary comment
FirstWords ==
    {AtType, AtZod, AtJsonSchema, AtSchema, <<"@", "T", "y", "p", "e">>,
     <<"T", "h", "i", "s">>}

ArgWords == {<<".", "/", "t", ".", "t", "s">>, <<"T">>}
ArgSeqs == UNION {[1..n -> ArgWords] : n \in 0..MaxArgs}

\* the whitespace between two words, and the whitespace before '#', after
\* '#' and after the last word
Gaps == {<<" ">>, <<" ", "\t", " ">>}
Margins == {<<>>, <<" ", " ">>}

CommentLine(lead, hashGap, word, args, gap, trail) ==
    lead \o <<"#">> \o hashGap \o word
        \o ConcatAll([i \in 1..Len(args) |-> gap \o args[i]]) \o trail

CommentLines ==
    {CommentLine(lead, hashGap, word, args, gap, trail) :
        lead \in Margins, hashGap \in Margins, word \in FirstWords,
        args \in ArgSeqs, gap \in Gaps, trail \in Margins}
        \cup {<<>>, <<"t", ":", " ", "H">>, <<"#">>}

ParseCommentInit ==
    /\ commentLine \in CommentLines
    /\ commentPc = "ready"
    /\ typeComment = Null
    /\ ValidateIdle
    /\ YamlIdle
    /\ TomlIdle
    /\ FrontmatterIdle
    /\ LintIdle
    /\ ExtractorIdle

\* const typeComment = parseTypeComment(line)
ParseTypeComment ==
    /\ commentPc = "ready"
    /\ typeComment' = parseTypeComment(commentLine)
    /\ commentPc' = "done"
    /\ UNCHANGED <<commentLine, validateVars, yamlVars, tomlVars,
                   frontmatterVars, lintVars, extractorVars>>

CommentNext == ParseTypeComment

SpecComment == ParseCommentInit /\ [][CommentNext]_vars

-----------------------------------------------------------------------------
(* parser/frontmatter.ts *)

\* the text has pat at the position p
HasAt(chars, p, pat) ==
    /\ p + Len(pat) - 1 <= Len(chars)
    /\ SubSeq(chars, p, p + Len(pat) - 1) = pat

\* content.match(/^D\r?\n([\s\S]*?)(?:\r?\n)?D/) for a delimiter D: the
\* capture group, or Null when there is no match.  The lazy group ends at
\* the first position where a line end followed by D, or D itself, begins.
MatchDelimited(content, delimiter) ==
    LET opening ==
            IF HasAt(content, 1, delimiter \o <<"\r", "\n">>)
            THEN Len(delimiter) + 2
            ELSE IF HasAt(content, 1, delimiter \o <<"\n">>)
            THEN Len(delimiter) + 1
            ELSE 0
        closes ==
            {p \in (opening + 1)..(Len(content) + 1) :
                \/ HasAt(content, p, <<"\r", "\n">> \o delimiter)
                \/ HasAt(content, p, <<"\n">> \o delimiter)
                \/ HasAt(content, p, delimiter)}
    IN IF opening = 0 \/ closes = {} THEN Null
       ELSE [raw |-> SubSeq(content, opening + 1,
                            (CHOOSE p \in closes : \A q \in closes : p <= q)
                                - 1)]

YAML_REGEX(content) == MatchDelimited(content, <<"-", "-", "-">>)
TOML_REGEX(content) == MatchDelimited(content, <<"+", "+", "+">>)

\* matchFrontmatter(content)
matchFrontmatter(content) ==
    IF YAML_REGEX(content) # Null
    THEN [raw |-> YAML_REGEX(content).raw, format |-> "yaml"]
    ELSE IF TOML_REGEX(content) # Null
    THEN [raw |-> TOML_REGEX(content).raw, format |-> "toml"]
    ELSE Null

\* what extractFrontmatter returns; typeRef is absent when it is undefined
ParsedFrontmatter(data, typeRefs, format, raw, endLine) ==
    IF Len(typeRefs) = 0
    THEN [data |-> data, format |-> format, raw |-> raw, startLine |-> 1,
          endLine |-> endLine]
    ELSE [data |-> data, typeRef |-> typeRefs[Len(typeRefs)],
          format |-> format, raw |-> raw, startLine |-> 1,
          endLine |-> endLine]

\* extractFrontmatter(content): null, the ParsedFrontmatter, or TypeError
\* when parseToml throws it
extractFrontmatter(content) ==
    LET match == matchFrontmatter(content)
    IN IF match = Null THEN Null
       ELSE LET lines == SplitLines(match.raw)
                typeRefs ==
                    SelectSeq([i \in 1..Len(lines) |->
                                  parseTypeComment(lines[i])],
                              LAMBDA r : r # Null)
                dataLines ==
                    SelectSeq(lines, LAMBDA l : parseTypeComment(l) = Null)
                dataContent == JoinChars(dataLines, <<"\n">>)
                data == IF match.format = "toml" THEN parseToml(dataContent)
                        ELSE parseYaml(dataContent)
            IN IF data = TypeError THEN TypeError
               ELSE ParsedFrontmatter(data, typeRefs, match.format,
                                      match.raw, Len(lines) + 2)

-----------------------------------------------------------------------------
(* The inputs of extractFrontmatter and the call *)

MaxBodyLines == 2

\* the lines of a frontmatter body: a pair, a pair whose value holds the
\* delimiter characters (inner), @schema and @type comments and an ordinary
\* comment (note)
BodyLine(kind, text) == [kind |-> kind, text |-> text]

PathTs == <<".", "/", "t", ".", "t", "s">>
PathJson == <<".", "/", "s", ".", "j", "s", "o", "n">>
PathTxt == <<".", "/", "x", ".", "t", "x", "t">>

CommentWith(word, args) ==
    CommentLine(<<>>, <<" ">>, word, args, <<" ">>, <<>>)

CommentBodyLines ==
    {BodyLine("schema", CommentWith(AtSchema, <<PathTs, <<"T">>>>)),
     BodyLine("schema", CommentWith(AtSchema, <<PathJson>>)),
     BodyLine("schema", CommentWith(AtSchema, <<PathTxt>>)),
     BodyLine("type", CommentWith(AtType, <<PathTs, <<"T">>>>)),
     BodyLine("note", CommentWith(<<"n", "o", "t", "e">>, <<>>))}

BodyLinesOf(format) ==
    CommentBodyLines \cup
        IF format = "yaml"
        THEN {BodyLine("pair", <<"a", ":", " ", "1">>),
              BodyLine("inner", <<"t", ":", " ", "x", "-", "-", "-", "y">>)}
        ELSE {BodyLine("pair", <<"a", " ", "=", " ", "1">>),
              BodyLine("inner",
                       <<"t", " ", "=", " ", "'", "x", "+", "+", "+", "y",
                         "'">>)}

DelimiterOf(format) ==
    IF format = "yaml" THEN <<"-", "-", "-">> ELSE <<"+", "+", "+">>
OtherFormat(format) == IF format = "yaml" THEN "toml" ELSE "yaml"

\* a document: text before the opening delimiter line (or none), the
\* opening line, the body lines, and the closing line: the same delimiter,
\* the other delimiter, or none; every line ends with eol
DocDesc(before, format, body, closing, eol) ==
    [before |-> before, format |-> format, body |-> body,
     closing |-> closing, eol |-> eol]

BodiesOf(format) ==
    UNION {[1..n -> BodyLinesOf(format)] : n \in 0..MaxBodyLines}

DocDescs ==
    UNION {{DocDesc(before, format, body, closing, eol) :
                before \in {<<>>, <<"x">>},
                body \in BodiesOf(format),
                closing \in {"same", "other", "none"},
                eol \in {<<"\n">>, <<"\r", "\n">>}} :
            format \in {"yaml", "toml"}}

RenderDoc(d) ==
    (IF d.before = <<>> THEN <<>> ELSE d.before \o d.eol)
        \o DelimiterOf(d.format) \o d.eol
        \o ConcatAll([i \in 1..Len(d.body) |-> d.body[i].text \o d.eol])
        \o (CASE d.closing = "same" -> DelimiterOf(d.format) \o d.eol
              [] d.closing = "other" ->
                    DelimiterOf(OtherFormat(d.format)) \o d.eol
              [] d.closing = "none" -> <<>>)
        \o <<"T", "e", "x", "t">> \o d.eol

Documents ==
    {RenderDoc(d) : d \in DocDescs}
        \cup {<<>>, <<"-", "-", "-">>, <<"-", "-", "-", "\n", "-", "-", "-">>,
              <<"-", "-", "-", "-", "\n", "a", ":", " ", "1", "\n",
                "-", "-", "-", "\n">>}

FrontmatterInit ==
    /\ document \in Documents
    /\ frontmatterPc = "ready"
    /\ frontmatter = Null
    /\ ValidateIdle
    /\ YamlIdle
    /\ TomlIdle
    /\ CommentIdle
    /\ LintIdle
    /\ ExtractorIdle

\* const frontmatter = extractFrontmatter(content)
ExtractFrontmatter ==
    /\ frontmatterPc = "ready"
    /\ frontmatter' = extractFrontmatter(document)
    /\ frontmatterPc' = "done"
    /\ UNCHANGED <<document, validateVars, yamlVars, tomlVars, commentVars,
                   lintVars, extractorVars>>

FrontmatterNext == ExtractFrontmatter

SpecFrontmatter == FrontmatterInit /\ [][FrontmatterNext]_vars

-----------------------------------------------------------------------------
(* index.ts and its collaborators: the files of the base directory *)

\* a file of the base directory: absent, a JSON file (with a syntax error,
\* holding what is no JSON Schema, or holding a schema), or a TypeScript
\* file with its exported type aliases, interfaces and values, the values
\* that are Zod schemas, and whether import() of the file succeeds
MissingFile == [exists |-> FALSE]
JsonFile(json) == [exists |-> TRUE, json |-> json]
TsFile(types, interfaces, values, zod, importable) ==
    [exists |-> TRUE, types |-> types, interfaces |-> interfaces,
     values |-> values, zod |-> zod, importable |-> importable]

NamesOf(names) == {names[i] : i \in DOMAIN names}

RECURSIVE JoinStr(_, _)
\* names.join(sep)
JoinStr(names, sep) ==
    IF Len(names) = 0 THEN ""
    ELSE IF Len(names) = 1 THEN names[1]
    ELSE names[1] \o sep \o JoinStr(Tail(names), sep)

\* the TypeInfo of every declaration of the model: { a: number }
DeclaredType == TObject(<<Prop("a", TNumber, FALSE)>>)

\* extractTypeInfo(filePath, typeName, basePath), file being the file at
\* that path: null without a source file or without an interface or type
\* alias of that name
extractTypeInfo(file, typeName) ==
    IF ~file.exists THEN Null
    ELSE IF typeName \in NamesOf(file.interfaces) \cup NamesOf(file.types)
    THEN DeclaredType
    ELSE Null

\* analyzeSchemaFile(filePath, basePath)
analyzeSchemaFile(file) ==
    IF ~file.exists
    THEN [types |-> <<>>, interfaces |-> <<>>, values |-> <<>>]
    ELSE [types |-> file.types, interfaces |-> file.interfaces,
          values |-> file.values]

\* { code, message }
LintError(code, message) == [code |-> code, message |-> message]

\* validateWithZod(data, schemaPath, schemaName, basePath, options); issues
\* is the converted issue list of safeParse
validateWithZod(file, schemaPath, schemaName, issues) ==
    IF ~file.exists \/ ~file.importable
    THEN <<LintError("FILE_NOT_FOUND",
                     "Schema file not found: " \o schemaPath)>>
    ELSE IF schemaName \notin NamesOf(file.values)
    THEN <<LintError("SCHEMA_NOT_FOUND",
                     "Schema '" \o schemaName \o "' not found in '"
                        \o schemaPath \o "'")>>
    ELSE IF schemaName \notin file.zod
    THEN <<LintError("INVALID_SCHEMA",
                     "'" \o schemaName \o "' is not a valid Zod schema")>>
    ELSE issues

\* validateWithJsonSchema(data, schemaPath, basePath, options); issues is
\* the converted error list of the compiled schema
validateWithJsonSchema(file, schemaPath, issues) ==
    IF ~file.exists
    THEN <<LintError("FILE_NOT_FOUND",
                     "Schema file not found: " \o schemaPath)>>
    ELSE IF file.json = "syntaxError"
    THEN <<LintError("INVALID_JSON",
                     "Invalid JSON syntax in schema file: " \o schemaPath)>>
    ELSE IF file.json = "notASchema"
    THEN <<LintError("INVALID_SCHEMA", "Invalid JSON Schema: error")>>
    ELSE issues

\* a look at the file system or a call of a collaborator
Probe(op, path) == [op |-> op, path |-> path]

\* autoDetectSchemaTs counting every exported value as a schema
autoDetectSchemaTs_CountsEveryValue(file) ==
    IF ~file.exists
    THEN [result |-> Null, probes |-> <<Probe("existsSync", "schema.ts")>>]
    ELSE
    LET analysis == analyzeSchemaFile(file)
        typeCount == Len(analysis.types) + Len(analysis.interfaces)
        imports == Len(analysis.values) > 0
        zodSchemas == analysis.values
        totalSchemas == typeCount + Len(zodSchemas)
        allNames == analysis.types \o analysis.interfaces \o zodSchemas
        probes ==
            <<Probe("existsSync", "schema.ts"),
              Probe("analyzeSchemaFile", "schema.ts")>>
                \o (IF imports THEN <<Probe("import", "schema.ts")>>
                    ELSE <<>>)
        result ==
            IF totalSchemas = 0
            THEN [success |-> FALSE,
                  error |-> LintError("NO_SCHEMA_IN_FILE",
                      "No exported type, interface, or Zod schema found in schema.ts")]
            ELSE IF totalSchemas > 1
            THEN [success |-> FALSE,
                  error |-> LintError("MULTIPLE_SCHEMAS_FOUND",
                      "Multiple schemas found in schema.ts: "
                        \o JoinStr(allNames, ", ")
                        \o ". Please use explicit annotation or export only one schema.")]
            ELSE IF Len(zodSchemas) = 1
            THEN [success |-> TRUE,
                  typeRef |-> TypeReference("zod", "schema.ts",
                                            zodSchemas[1])]
            ELSE [success |-> TRUE,
                  typeRef |-> TypeReference("typescript", "schema.ts",
                                  IF Len(analysis.types) > 0
                                  THEN analysis.types[1]
                                  ELSE analysis.interfaces[1])]
    IN [result |-> result, probes |-> probes]

\* autoDetectSchemaTs(basePath), file being basePath/schema.ts: the
\* AutoDetectResult or null, and the probes made
autoDetectSchemaTs(file) ==
    IF ~file.exists
    THEN [result |-> Null, probes |-> <<Probe("existsSync", "schema.ts")>>]
    ELSE
    LET analysis == analyzeSchemaFile(file)
        typeCount == Len(analysis.types) + Len(analysis.interfaces)
        imports == Len(analysis.values) > 0
        zodSchemas ==
            IF imports /\ file.importable
            THEN SelectSeq(analysis.values, LAMBDA v : v \in file.zod)
            ELSE <<>>
        totalSchemas == typeCount + Len(zodSchemas)
        allNames == analysis.types \o analysis.interfaces \o zodSchemas
        probes ==
            <<Probe("existsSync", "schema.ts"),
              Probe("analyzeSchemaFile", "schema.ts")>>
                \o (IF imports THEN <<Probe("import", "schema.ts")>>
                    ELSE <<>>)
        result ==
            IF totalSchemas = 0
            THEN [success |-> FALSE,
                  error |-> LintError("NO_SCHEMA_IN_FILE",
                      "No exported type, interface, or Zod schema found in schema.ts")]
            ELSE IF totalSchemas > 1
            THEN [success |-> FALSE,
                  error |-> LintError("MULTIPLE_SCHEMAS_FOUND",
                      "Multiple schemas found in schema.ts: "
                        \o JoinStr(allNames, ", ")
                        \o ". Please use explicit annotation or export only one schema.")]
            ELSE IF Len(zodSchemas) = 1
            THEN [success |-> TRUE,
                  typeRef |-> TypeReference("zod", "schema.ts",
                                            zodSchemas[1])]
            ELSE [success |-> TRUE,
                  typeRef |-> TypeReference("typescript", "schema.ts",
                                  IF Len(analysis.types) > 0
                                  THEN analysis.types[1]
                                  ELSE analysis.interfaces[1])]
    IN [result |-> result, probes |-> probes]

\* The documents of lintFile / lintContent

PathZod == <<".", "/", "z", ".", "t", "s">>

\* the directive lines of the documents, by name; "schema" is the
\* '# @schema' line of the tests
DirectiveLine(directive) ==
    CASE directive = "type" ->
            <<BodyLine("type", CommentWith(AtType, <<PathTs, <<"T">>>>))>>
      [] directive = "zod" ->
            <<BodyLine("zod", CommentWith(AtZod, <<PathZod, <<"S">>>>))>>
      [] directive = "jsonschema" ->
            <<BodyLine("jsonschema", CommentWith(AtJsonSchema, <<PathJson>>))>>
      [] directive = "schema.ts" ->
            <<BodyLine("schema", CommentWith(AtSchema, <<PathTs, <<"T">>>>))>>
      [] directive = "schema.json" ->
            <<BodyLine("schema", CommentWith(AtSchema, <<PathJson>>))>>
      [] OTHER -> <<>>

Directives == {"type", "zod", "jsonschema", "schema.ts", "schema.json"}

\* a document with frontmatter: directive line, one pair, closing line
LintDoc(format, directive, token) ==
    RenderDoc(DocDesc(<<>>, format,
        DirectiveLine(directive)
            \o <<BodyLine("pair",
                    IF format = "yaml" THEN <<"a", ":", " ">> \o token
                    ELSE <<"a", " ", "=", " ">> \o token)>>,
        "same", <<"\n">>))

LintDocDescs ==
    {<<"yaml", d, <<"1">>>> : d \in Directives \cup {"none"}}
        \cup {<<"yaml", d, <<"x">>>> : d \in {"type", "none"}}
        \cup {<<"toml", d, <<"1">>>> : d \in {"type", "schema.ts", "none"}}

PlainText == <<"T", "e", "x", "t", "\n">>

\* createErrorResult(file, code, message)
createErrorResult(file, code, message) ==
    [file |-> file, valid |-> FALSE, errors |-> <<LintError(code, message)>>]

\* createSuccessResult(file)
createSuccessResult(file) == [file |-> file, valid |-> TRUE, errors |-> <<>>]

\* options[name], undefined being falsy
Flag(options, name) == name \in DOMAIN options /\ options[name]

\* { allowExtraProps: false, ...options }
resolveOptions(options) ==
    [name \in DOMAIN options \cup {"allowExtraProps"} |->
        IF name \in DOMAIN options THEN options[name] ELSE FALSE]

\* the file a path names: schema.json and schema.ts of the base directory,
\* or the file a directive names
FileAt(env, path) ==
    CASE path = "schema.json" -> env.schemaJson
      [] path = "schema.ts" -> env.schemaTs
      [] OTHER -> env.target

\* mutant: a missing schema is an error whatever requireSchema says
missingSchema_AlwaysRequired(filePath, resolvedOptions) ==
    createErrorResult(filePath, "MISSING_SCHEMA_ANNOTATION",
        "Frontmatter is missing # @type, # @zod, or # @jsonschema comment")

\* lintContent, if (!typeRef) { ... }
missingSchema(filePath, resolvedOptions) ==
    IF Flag(resolvedOptions, "requireSchema")
    THEN createErrorResult(filePath, "MISSING_SCHEMA_ANNOTATION",
            "Frontmatter is missing # @type, # @zod, or # @jsonschema comment")
    ELSE createSuccessResult(filePath)

\* lintContent, "Run validation based on schema kind"
runValidation(data, typeRef, filePath, env, resolvedOptions, issues) ==
    LET file == FileAt(env, typeRef.filePath)
    IN CASE typeRef.kind = "zod" ->
              LET errors == validateWithZod(file, typeRef.filePath,
                                            typeRef.typeName, issues)
              IN [result |-> [file |-> filePath, valid |-> errors = <<>>,
                              errors |-> errors],
                  probes |-> <<Probe("validateWithZod", typeRef.filePath)>>]
         [] typeRef.kind = "jsonschema" ->
              LET errors == validateWithJsonSchema(file, typeRef.filePath,
                                                   issues)
              IN [result |-> [file |-> filePath, valid |-> errors = <<>>,
                              errors |-> errors],
                  probes |-> <<Probe("validateWithJsonSchema",
                                     typeRef.filePath)>>]
         [] OTHER ->
              LET info == extractTypeInfo(file, typeRef.typeName)
                  errors == validate(data, info, resolvedOptions, "")
              IN IF info = Null
                 THEN [result |-> createErrorResult(filePath,
                          "TYPE_NOT_FOUND",
                          "Type '" \o typeRef.typeName \o "' not found in '"
                            \o typeRef.filePath \o "'"),
                       probes |-> <<Probe("extractTypeInfo",
                                          typeRef.filePath)>>]
                 ELSE [result |-> [file |-> filePath, valid |-> errors = <<>>,
                                   errors |-> errors],
                       probes |-> <<Probe("extractTypeInfo", typeRef.filePath),
                                    Probe("validate", typeRef.filePath)>>]

\* lintContent(content, filePath, basePath, options) from the point where
\* extractFrontmatter(content) has returned parsed (or thrown), env holding
\* the files of basePath: the LintResult and the probes made
lintContent(parsed, filePath, env, options, issues) ==
    LET resolvedOptions == resolveOptions(options)
        explicit == "typeRef" \in DOMAIN parsed
        auto == ~explicit /\ ~Flag(resolvedOptions, "noAutoSchema")
        jsonExists == env.schemaJson.exists
        schemaTsResult == autoDetectSchemaTs(env.schemaTs)
        autoProbes ==
            IF ~auto THEN <<>>
            ELSE IF jsonExists THEN <<Probe("existsSync", "schema.json")>>
            ELSE <<Probe("existsSync", "schema.json")>>
                    \o schemaTsResult.probes
        autoError ==
            auto /\ ~jsonExists /\ schemaTsResult.result # Null
                /\ ~schemaTsResult.result.success
        typeRef ==
            IF explicit THEN parsed.typeRef
            ELSE IF ~auto THEN Undefined
            ELSE IF jsonExists
            THEN TypeReference("jsonschema", "schema.json", "")
            ELSE IF schemaTsResult.result = Null THEN Undefined
            ELSE schemaTsResult.result.typeRef
    IN IF parsed = TypeError
       THEN [result |-> TypeError, probes |-> <<>>]
       ELSE IF parsed = Null
       THEN [result |-> createSuccessResult(filePath), probes |-> <<>>]
       ELSE IF autoError
       THEN [result |-> createErrorResult(filePath,
                            schemaTsResult.result.error.code,
                            schemaTsResult.result.error.message),
             probes |-> autoProbes]
       ELSE IF typeRef = Undefined
       THEN [result |-> missingSchema(filePath, resolvedOptions),
             probes |-> autoProbes]
       ELSE LET run == runValidation(parsed.data, typeRef, filePath, env,
                                     resolvedOptions, issues)
            IN [result |-> run.result, probes |-> autoProbes \o run.probes]

\* a Markdown file and its text
TextFile(text) == [exists |-> TRUE, text |-> text]

\* lintFile(filePath, options), env.document being the file at filePath and
\* parsed what extractFrontmatter returns on its text
lintFile(filePath, env, parsed, options, issues) ==
    IF ~env.document.exists
    THEN [result |-> createErrorResult(filePath, "FILE_NOT_FOUND",
                        "File not found: " \o filePath),
          probes |-> <<Probe("existsSync", filePath)>>]
    ELSE LET linted == lintContent(parsed, filePath, env, options, issues)
         IN [result |-> linted.result,
             probes |-> <<Probe("existsSync", filePath),
                          Probe("readFileSync", filePath)>>
                            \o linted.probes]

-----------------------------------------------------------------------------
(* The inputs of lintFile / lintContent and the calls *)

\* the most type aliases, and the most interfaces, schema.ts exports
MaxDeclared == 1

\* the files a directive may name
TargetFiles(directive) ==
    CASE directive = "type" ->
            {MissingFile, TsFile(<<"T">>, <<>>, <<>>, {}, TRUE),
             TsFile(<<>>, <<"T">>, <<>>, {}, TRUE),
             TsFile(<<"U">>, <<>>, <<>>, {}, TRUE)}
      [] directive = "zod" ->
            {MissingFile, TsFile(<<>>, <<>>, <<"S">>, {"S"}, TRUE),
             TsFile(<<>>, <<>>, <<"S">>, {"S"}, FALSE),
             TsFile(<<>>, <<>>, <<"S">>, {}, TRUE),
             TsFile(<<>>, <<>>, <<"c">>, {}, TRUE)}
      [] directive = "jsonschema" ->
            {MissingFile, JsonFile("syntaxError"), JsonFile("notASchema"),
             JsonFile("schema")}
      [] directive = "schema.ts" ->
            {MissingFile, TsFile(<<"T">>, <<>>, <<>>, {}, TRUE)}
      [] directive = "schema.json" -> {MissingFile, JsonFile("schema")}
      [] OTHER -> {MissingFile}

SchemaJsonFiles ==
    {MissingFile, JsonFile("syntaxError"), JsonFile("notASchema"),
     JsonFile("schema")}

TypeNames == <<"A", "B", "C">>
InterfaceNames == <<"I", "J", "K">>

\* schema.ts: absent, or exporting up to MaxDeclared type aliases, up to
\* MaxDeclared interfaces, and as values nothing, the constant c, the Zod
\* schema S in a file whose import() fails, or S and c
SchemaTsFiles ==
    {MissingFile} \cup
    {TsFile(SubSeq(TypeNames, 1, n), SubSeq(InterfaceNames, 1, m), v[1],
            NamesOf(v[1]) \cap {"S"}, v[2]) :
        n \in 0..MaxDeclared, m \in 0..MaxDeclared,
        v \in {<<<<>>, TRUE>>, <<<<"c">>, TRUE>>, <<<<"S">>, FALSE>>,
               <<<<"S", "c">>, TRUE>>}}

LintEnv(file, target, schemaJson, schemaTs) ==
    [document |-> file, target |-> target, schemaJson |-> schemaJson,
     schemaTs |-> schemaTs]

LintEnvs ==
    UNION {{LintEnv(TextFile(LintDoc(d[1], d[2], d[3])), target, schemaJson,
                    schemaTs) :
                target \in TargetFiles(d[2]),
                schemaJson \in SchemaJsonFiles,
                schemaTs \in SchemaTsFiles} : d \in LintDocDescs}
        \cup {LintEnv(file, MissingFile, schemaJson, schemaTs) :
                file \in {MissingFile, TextFile(PlainText)},
                schemaJson \in SchemaJsonFiles,
                schemaTs \in SchemaTsFiles}

OptionNames == {"allowExtraProps", "requireSchema", "noAutoSchema"}
LintOptionSets == {[name \in S |-> TRUE] : S \in SUBSET OptionNames}

\* the error lists the Zod schema or the compiled JSON Schema may give
Issues ==
    {<<>>, <<MissingProperty("b", "required")>>,
     <<TypeMismatch("a", "'a' expected number, but received string",
                    "number", "string"),
       ExtraProperty("c")>>}

FilePath == "test.md"

\* a call of lintFile or lintContent: the files of the base directory and
\* the text of the document
LintInit ==
    /\ lintEnv \in LintEnvs
    /\ document = IF lintEnv.document.exists THEN lintEnv.document.text
                  ELSE <<>>
    /\ frontmatterPc = "ready"
    /\ frontmatter = Null
    /\ lintPc = "ready"
    /\ lintOptions = NoOptions
    /\ lintProbes = <<>>
    /\ lintResult = Null
    /\ ValidateIdle
    /\ YamlIdle
    /\ TomlIdle
    /\ CommentIdle
    /\ ExtractorIdle

\* await lintFile(filePath, options): the file is absent, or the
\* frontmatter of its text has been extracted
LintFile(options, issues) ==
    /\ lintPc = "ready"
    /\ ~lintEnv.document.exists \/ frontmatterPc = "done"
    /\ LET linted == lintFile(FilePath, lintEnv, frontmatter, options, issues)
       IN /\ lintResult' = linted.result
          /\ lintProbes' = linted.probes
    /\ lintOptions' = options
    /\ lintPc' = "done"
    /\ UNCHANGED <<lintEnv, validateVars, yamlVars, tomlVars, frontmatterVars,
                   commentVars, extractorVars>>

\* await lintContent(content, filePath, basePath, options), after its
\* extractFrontmatter(content)
LintContent(options, issues) ==
    /\ lintPc = "ready"
    /\ lintEnv.document.exists
    /\ frontmatterPc = "done"
    /\ LET linted == lintContent(frontmatter, FilePath, lintEnv, options,
                                 issues)
       IN /\ lintResult' = linted.result
          /\ lintProbes' = linted.probes
    /\ lintOptions' = options
    /\ lintPc' = "done"
    /\ UNCHANGED <<lintEnv, validateVars, yamlVars, tomlVars, frontmatterVars,
                   commentVars, extractorVars>>

LintNext ==
    \/ lintEnv.document.exists /\ ExtractFrontmatter
    \/ \E options \in LintOptionSets, issues \in Issues :
            LintFile(options, issues)
    \/ \E options \in LintOptionSets, issues \in Issues :
            LintContent(options, issues)

SpecLint == LintInit /\ [][LintNext]_vars

-----------------------------------------------------------------------------
(* Vocabulary of the properties of validate *)

IsExtra(e) == e.code = "EXTRA_PROPERTY"
WithoutExtra(errors) == SelectSeq(errors, LAMBDA e : ~IsExtra(e))
NoExtra(errors) == \A i \in 1..Len(errors) : ~IsExtra(errors[i])
StrictCalls == {"default", "strict"}

RECURSIVE Flatten(_)
Flatten(seqs) ==
    IF Len(seqs) = 0 THEN <<>> ELSE Head(seqs) \o Flatten(Tail(seqs))

RECURSIVE HasObjectType(_)
\* an Object type occurs somewhere in t
HasObjectType(t) ==
    CASE t.kind = "object" -> TRUE
      [] t.kind = "array" -> HasObjectType(t.elementType)
      [] t.kind \in {"union", "intersection"} ->
            \E i \in 1..Len(t.types) : HasObjectType(t.types[i])
      [] OTHER -> FALSE

RECURSIVE ObjectInsideUnion(_)
\* an Object type occurs somewhere inside a member of a Union of t
ObjectInsideUnion(t) ==
    CASE t.kind = "union" -> \E i \in 1..Len(t.types) : HasObjectType(t.types[i])
      [] t.kind = "intersection" ->
            \E i \in 1..Len(t.types) : ObjectInsideUnion(t.types[i])
      [] t.kind = "array" -> ObjectInsideUnion(t.elementType)
      [] t.kind = "object" ->
            \E i \in 1..Len(t.properties) :
                ObjectInsideUnion(t.properties[i].type)
      [] OTHER -> FALSE

IsObjectValue(v) == v.tag = "object"
DeclaredNames(t) == {t.properties[i].name : i \in 1..Len(t.properties)}

\* the number of errors of the list with the given code and path
CountAt(errors, code, path) ==
    Cardinality({i \in 1..Len(errors) :
                    /\ errors[i].code = code
                    /\ "path" \in DOMAIN errors[i]
                    /\ errors[i].path = path})

-----------------------------------------------------------------------------
(* C1 *)

\* C1 (as stated): with allowExtraProps:true the list has no EXTRA_PROPERTY
\* error, and for every value and type the strict list without its
\* EXTRA_PROPERTY entries is exactly the lenient list.
C1_AsStated ==
    {"strict", "lenient"} \subseteq called =>
        /\ NoExtra(results["lenient"])
        /\ WithoutExtra(results["strict"]) = results["lenient"]

\* C1 (amended): with allowExtraProps:true the list has no EXTRA_PROPERTY
\* error; and when no Object type occurs inside a Union member of the type,
\* the strict list without its EXTRA_PROPERTY entries is exactly the lenient
\* list.
C1_StrictnessToggling ==
    {"strict", "lenient"} \subseteq called =>
        /\ NoExtra(results["lenient"])
        /\ ~ObjectInsideUnion(typeInfo) =>
              WithoutExtra(results["strict"]) = results["lenient"]

\* an object nested in an array or a property loses its EXTRA_PROPERTY
\* errors, and only those, when allowExtraProps is switched on
C1_Witness ==
    /\ {"strict", "lenient"} \subseteq called
    /\ ~ObjectInsideUnion(typeInfo)
    /\ typeInfo.kind \in {"array", "intersection"}
    /\ \E i \in 1..Len(results["strict"]) : IsExtra(results["strict"][i])
    /\ Len(results["lenient"]) > 0

-----------------------------------------------------------------------------
(* C2 *)

\* T1 | T2 | ... : the members of a union joined by ' | '
UnionText(u) ==
    Join([i \in 1..Len(u.types) |-> typeInfoToString(u.types[i])], " | ")

\* some member of the union u validates w at the given path with zero errors
SomeMemberAccepts(w, u, path, call) ==
    \E i \in 1..Len(u.types) :
        validateValue(w, u.types[i], path, <<>>, OptionsOf(call)) = <<>>

\* the single summary error of a union at the given path
IsUnionSummary(errors, u, path) ==
    /\ Len(errors) = 1
    /\ errors[1].code = "TYPE_MISMATCH"
    /\ errors[1].expected = UnionText(u)
    /\ IF path = "" THEN "path" \notin DOMAIN errors[1]
       ELSE "path" \in DOMAIN errors[1] /\ errors[1].path = path

\* C2: a union (at the root, or at the only declared property of an object)
\* yields zero errors when some member validates the value with zero errors,
\* and otherwise exactly one TYPE_MISMATCH at the union's path whose expected
\* text is the members joined by ' | ', and no member-level error.
C2_UnionValidation ==
    \A call \in called :
        /\ typeInfo.kind = "union" =>
              IF SomeMemberAccepts(value, typeInfo, "", call)
              THEN results[call] = <<>>
              ELSE IsUnionSummary(results[call], typeInfo, "")
        /\ ( /\ typeInfo.kind = "object"
             /\ Len(typeInfo.properties) = 1
             /\ typeInfo.properties[1].type.kind = "union"
             /\ IsObjectValue(value)
             /\ HasKey(value, typeInfo.properties[1].name) ) =>
              LET p == typeInfo.properties[1]
                  w == Get(value, p.name)
                  errs == WithoutExtra(results[call])
              IN IF SomeMemberAccepts(w, p.type, p.name, call)
                 THEN errs = <<>>
                 ELSE IsUnionSummary(errs, p.type, p.name)

\* the first member rejects the value, the second accepts it, and nothing of
\* the first member's errors is returned
C2_Witness ==
    /\ "default" \in called
    /\ typeInfo.kind = "union"
    /\ Len(typeInfo.types) = 2
    /\ typeInfo.types[1].kind = "object"
    /\ validateValue(value, typeInfo.types[1], "", <<>>, NoOptions) # <<>>
    /\ validateValue(value, typeInfo.types[2], "", <<>>, NoOptions) = <<>>
    /\ results["default"] = <<>>

-----------------------------------------------------------------------------
(* C3 *)

RECURSIVE SumSeq(_)
SumSeq(ns) == IF Len(ns) = 0 THEN 0 ELSE Head(ns) + SumSeq(Tail(ns))

\* errors holds block as a run of consecutive entries
HasBlock(errors, block) ==
    \E off \in 0..(Len(errors) - Len(block)) :
        SubSeq(errors, off + 1, off + Len(block)) = block

\* the EXTRA_PROPERTY errors of the root object itself
RootExtraCount(errors, obj, t) ==
    Cardinality({i \in 1..Len(errors) :
                    /\ IsExtra(errors[i])
                    /\ \E j \in 1..Len(obj.keys) :
                          /\ obj.keys[j] \notin DeclaredNames(t)
                          /\ errors[i].path = obj.keys[j]})

\* the number of errors one declared property may contribute
PropErrorCount(obj, p, call) ==
    IF ~HasKey(obj, p.name)
    THEN IF p.optional THEN 0 ELSE 1
    ELSE Len(validateValue(Get(obj, p.name), p.type, p.name, <<>>,
                           OptionsOf(call)))

\* C3: for an object matched against an Object type, a declared property
\* that is absent and required gives exactly one MISSING_PROPERTY with path
\* parent.name, one that is absent and optional gives no error, and one that
\* is present gives the errors of validating its value at path parent.name.
C3_DeclaredProperties ==
    \A call \in called :
        (typeInfo.kind = "object" /\ IsObjectValue(value)) =>
            /\ \A i \in 1..Len(typeInfo.properties) :
                  LET p == typeInfo.properties[i]
                  IN /\ CountAt(results[call], "MISSING_PROPERTY", p.name)
                          = (IF ~HasKey(value, p.name) /\ ~p.optional
                             THEN 1 ELSE 0)
                     /\ HasKey(value, p.name) =>
                          HasBlock(results[call],
                              validateValue(Get(value, p.name), p.type,
                                            p.name, <<>>, OptionsOf(call)))
                     /\ ( /\ HasKey(value, p.name)
                          /\ p.type.kind = "object"
                          /\ IsObjectValue(Get(value, p.name)) ) =>
                          \A j \in 1..Len(p.type.properties) :
                              LET q == p.type.properties[j]
                              IN CountAt(results[call], "MISSING_PROPERTY",
                                         p.name \o "." \o q.name)
                                   = (IF /\ ~HasKey(Get(value, p.name), q.name)
                                         /\ ~q.optional
                                      THEN 1 ELSE 0)
            /\ Len(results[call])
                 - RootExtraCount(results[call], value, typeInfo)
                 = SumSeq([i \in 1..Len(typeInfo.properties) |->
                             PropErrorCount(value, typeInfo.properties[i],
                                            call)])

\* one required property is absent, one optional property is absent, and
\* the only error is the MISSING_PROPERTY of the required one
C3_Witness ==
    /\ "lenient" \in called
    /\ typeInfo.kind = "object"
    /\ IsObjectValue(value)
    /\ Len(typeInfo.properties) = 2
    /\ typeInfo.properties[1].optional
    /\ ~typeInfo.properties[2].optional
    /\ ~HasKey(value, "a")
    /\ ~HasKey(value, "b")
    /\ Len(results["lenient"]) = 1
    /\ results["lenient"][1].code = "MISSING_PROPERTY"
    /\ results["lenient"][1].path = typeInfo.properties[2].name

-----------------------------------------------------------------------------
(* C4 *)

\* every key of obj has one EXTRA_PROPERTY error at prefix.key when it is
\* not declared by t, and none when it is
ExtrasExactlyAt(errors, obj, t, prefix) ==
    \A j \in 1..Len(obj.keys) :
        CountAt(errors, "EXTRA_PROPERTY", prefix \o obj.keys[j])
            = (IF obj.keys[j] \in DeclaredNames(t) THEN 0 ELSE 1)

\* C4: with allowExtraProps unset or false, an object matched against an
\* Object type at the root, at a nested property or at an array element
\* yields exactly one EXTRA_PROPERTY error per undeclared key, with path
\* parent.key; with allowExtraProps true no EXTRA_PROPERTY error is produced.
C4_StrictByDefault ==
    /\ "lenient" \in called => NoExtra(results["lenient"])
    /\ \A call \in called \cap StrictCalls :
          /\ (typeInfo.kind = "object" /\ IsObjectValue(value)) =>
                /\ ExtrasExactlyAt(results[call], value, typeInfo, "")
                /\ \A i \in 1..Len(typeInfo.properties) :
                      LET p == typeInfo.properties[i]
                      IN ( /\ p.type.kind = "object"
                           /\ HasKey(value, p.name)
                           /\ IsObjectValue(Get(value, p.name)) ) =>
                            ExtrasExactlyAt(results[call], Get(value, p.name),
                                            p.type, p.name \o ".")
          /\ ( /\ typeInfo.kind = "array"
               /\ typeInfo.elementType.kind = "object"
               /\ IsArray(value) ) =>
                \A i \in 1..Len(value.items) :
                    IsObjectValue(value.items[i]) =>
                        ExtrasExactlyAt(results[call], value.items[i],
                            typeInfo.elementType,
                            "[" \o ToString(i - 1) \o "].")

\* validate called without options reports the undeclared key of the second
\* array element
C4_Witness ==
    /\ "default" \in called
    /\ typeInfo.kind = "array"
    /\ typeInfo.elementType.kind = "object"
    /\ CountAt(results["default"], "EXTRA_PROPERTY", "[1].a") = 1

-----------------------------------------------------------------------------
(* C5 *)

\* the errors of one declared property: its MISSING_PROPERTY error, nothing,
\* or the errors of the nested validation
PropBlock(obj, p, call) ==
    IF ~HasKey(obj, p.name)
    THEN IF p.optional THEN <<>>
         ELSE <<MissingProperty(p.name, typeInfoToString(p.type))>>
    ELSE validateValue(Get(obj, p.name), p.type, p.name, <<>>,
                       OptionsOf(call))

\* the undeclared keys of obj, in the key order of obj
UndeclaredKeys(obj, t) ==
    SelectSeq(obj.keys, LAMBDA k : k \notin DeclaredNames(t))

\* C5: for an object matched against an Object type the list is (1) the
\* blocks of the declared properties in declaration order, whatever the key
\* order of the value, then (2) the EXTRA_PROPERTY errors in the key order
\* of the object.
C5_ErrorOrder ==
    \A call \in called :
        (typeInfo.kind = "object" /\ IsObjectValue(value)) =>
            LET part1 == Flatten([i \in 1..Len(typeInfo.properties) |->
                            PropBlock(value, typeInfo.properties[i], call)])
                extra == IF call \in StrictCalls
                         THEN UndeclaredKeys(value, typeInfo) ELSE <<>>
                part2 == SubSeq(results[call], Len(part1) + 1,
                                Len(results[call]))
            IN /\ Len(results[call]) = Len(part1) + Len(extra)
               /\ SubSeq(results[call], 1, Len(part1)) = part1
               /\ \A i \in 1..Len(extra) :
                     /\ IsExtra(part2[i])
                     /\ part2[i].path = extra[i]

\* the keys of the value are c, b, a; the errors are a's, then b's, then the
\* EXTRA_PROPERTY of c
C5_Witness ==
    /\ "default" \in called
    /\ typeInfo.kind = "object"
    /\ IsObjectValue(value)
    /\ value.keys = <<"c", "b", "a">>
    /\ Len(results["default"]) = 3
    /\ results["default"][1].path = "a"
    /\ results["default"][2].path = "b"
    /\ results["default"][3] = ExtraProperty("c")

-----------------------------------------------------------------------------
(* C6 *)

KeySegment(k) == [key |-> k]
IndexSegment(i) == [index |-> i]

RECURSIVE Locations(_)
\* the segment sequences that lead from v to a value inside it
Locations(v) ==
    {<<>>} \cup
    (CASE v.tag = "array" ->
            UNION {{<<IndexSegment(i - 1)>> \o l : l \in Locations(v.items[i])} :
                      i \in 1..Len(v.items)}
       [] v.tag = "object" ->
            UNION {{<<KeySegment(v.keys[i])>> \o l : l \in Locations(v.vals[i])} :
                      i \in 1..Len(v.keys)}
       [] OTHER -> {})

RECURSIVE ValueAt(_, _)
ValueAt(v, loc) ==
    IF Len(loc) = 0 THEN v
    ELSE IF "key" \in DOMAIN Head(loc)
         THEN ValueAt(Get(v, Head(loc).key), Tail(loc))
         ELSE ValueAt(v.items[Head(loc).index + 1], Tail(loc))

RECURSIVE RenderPath(_)
\* property segments joined with '.', index segments appended as '[i]'
RenderPath(loc) ==
    IF Len(loc) = 0 THEN ""
    ELSE LET init == RenderPath(SubSeq(loc, 1, Len(loc) - 1))
             seg == loc[Len(loc)]
         IN IF "key" \in DOMAIN seg
            THEN IF init = "" THEN seg.key ELSE init \o "." \o seg.key
            ELSE init \o "[" \o ToString(seg.index) \o "]"

\* the error names the place loc of the value
ErrorIsAt(e, loc) ==
    IF Len(loc) = 0 THEN "path" \notin DOMAIN e
    ELSE "path" \in DOMAIN e /\ e.path = RenderPath(loc)

\* C6: the path of every error is the rendering of the segments from the
\* root to the offending value: a mismatch names the place of the value it
\* reports, an extra property the place of that key, a missing property
\* the place the key would have in an object that lacks it.
C6_PathCorrectness ==
    \A call \in called :
        /\ \A i \in 1..Len(results[call]) :
              LET e == results[call][i]
              IN \E loc \in Locations(value) :
                    CASE e.code = "TYPE_MISMATCH" ->
                            /\ ErrorIsAt(e, loc)
                            /\ "actual" \in DOMAIN e =>
                                  e.actual \in {getActualType(ValueAt(value, loc)),
                                                JSONStringify(ValueAt(value, loc))}
                      [] e.code = "EXTRA_PROPERTY" ->
                            /\ Len(loc) > 0
                            /\ "key" \in DOMAIN loc[Len(loc)]
                            /\ ErrorIsAt(e, loc)
                      [] e.code = "MISSING_PROPERTY" ->
                            /\ IsObjectValue(ValueAt(value, loc))
                            /\ \E name \in Keys :
                                  /\ ~HasKey(ValueAt(value, loc), name)
                                  /\ ErrorIsAt(e, loc \o <<KeySegment(name)>>)
        /\ ( /\ value = Obj(<<"a">>, <<Obj(<<"b">>, <<Str("x")>>)>>)
             /\ typeInfo = TObject(<<Prop("a",
                              TObject(<<Prop("b", TNumber, FALSE)>>), FALSE)>>) )
              => /\ Len(results[call]) = 1
                 /\ results[call][1].path = "a.b"
        /\ ( /\ value = Obj(<<"a">>, <<Arr(<<Num(1), Str("two")>>)>>)
             /\ typeInfo = TObject(<<Prop("a", TArray(TNumber), FALSE)>>) )
              => /\ Len(results[call]) = 1
                 /\ results[call][1].path = "a[1]"

\* {a: {b: "x"}} against {a: {b: number}} has given its single error
C6_Witness ==
    /\ "default" \in called
    /\ value = Obj(<<"a">>, <<Obj(<<"b">>, <<Str("x")>>)>>)
    /\ typeInfo = TObject(<<Prop("a", TObject(<<Prop("b", TNumber, FALSE)>>),
                                 FALSE)>>)
    /\ Len(results["default"]) = 1
    /\ results["default"][1].code = "TYPE_MISMATCH"

-----------------------------------------------------------------------------
(* C7 *)

\* C7: against Array(T) a non-array value yields exactly one TYPE_MISMATCH
\* for the whole value; an array yields the concatenation, in element order,
\* of the errors of every element i validated against T at path [i]; so
\* [1, "two", 3] against Array(number) yields one TYPE_MISMATCH at "[1]".
C7_ArrayValidation ==
    \A call \in called :
        typeInfo.kind = "array" =>
            /\ ~IsArray(value) =>
                  /\ Len(results[call]) = 1
                  /\ results[call][1].code = "TYPE_MISMATCH"
                  /\ results[call][1].expected = "array"
                  /\ "path" \notin DOMAIN results[call][1]
            /\ IsArray(value) =>
                  results[call] =
                      Flatten([i \in 1..Len(value.items) |->
                          validateValue(value.items[i], typeInfo.elementType,
                              "[" \o ToString(i - 1) \o "]", <<>>,
                              OptionsOf(call))])
            /\ ( /\ value = Arr(<<Num(1), Str("two"), Num(3)>>)
                 /\ typeInfo = TArray(TNumber) ) =>
                  /\ Len(results[call]) = 1
                  /\ results[call][1].code = "TYPE_MISMATCH"
                  /\ results[call][1].path = "[1]"

\* the first and the last element fail and both are reported
C7_Witness ==
    /\ "default" \in called
    /\ typeInfo = TArray(TNumber)
    /\ value = Arr(<<Str("two"), Num(1), Str("two")>>)
    /\ Len(results["default"]) = 2
    /\ results["default"][1].path = "[0]"
    /\ results["default"][2].path = "[2]"

-----------------------------------------------------------------------------
(* C8 *)

\* the runtime kind of a value, by its name in error messages
RuntimeKind(v) == v.tag

\* what C8 says of a primitive type at the root, but for the path field
PrimitiveOutcome(errors) ==
    IF RuntimeKind(value) = typeInfo.kind
    THEN errors = <<>>
    ELSE /\ Len(errors) = 1
         /\ errors[1].code = "TYPE_MISMATCH"
         /\ errors[1].expected = typeInfo.kind
         /\ errors[1].actual = RuntimeKind(value)
         /\ errors[1].message =
               "'root' expected " \o typeInfo.kind \o ", but received "
                   \o RuntimeKind(value)

\* C8 (as stated): for String, Number, Boolean, Null and Undefined a value
\* passes iff its runtime kind is that kind; a mismatch emits exactly one
\* TYPE_MISMATCH with the expected and the actual kind name, and at the root
\* the message says 'root' while the path field is the empty string.
C8_AsStated ==
    \A call \in called :
        typeInfo \in PrimitiveTypes =>
            /\ PrimitiveOutcome(results[call])
            /\ \A i \in 1..Len(results[call]) :
                  /\ "path" \in DOMAIN results[call][i]
                  /\ results[call][i].path = ""

\* C8 (amended): the same, but at the root the error has no path field (it
\* is undefined), not the empty string.
C8_PrimitiveMatching ==
    \A call \in called :
        typeInfo \in PrimitiveTypes =>
            /\ PrimitiveOutcome(results[call])
            /\ \A i \in 1..Len(results[call]) :
                  "path" \notin DOMAIN results[call][i]

\* undefined against Null is a mismatch
C8_Witness ==
    /\ "default" \in called
    /\ typeInfo = TNull
    /\ value = Undefined
    /\ Len(results["default"]) = 1
    /\ results["default"][1].actual = "undefined"

-----------------------------------------------------------------------------
(* C9 *)

\* the errors of member i of an intersection, for the value at the root
MemberErrors(i, call) ==
    validateValue(value, typeInfo.types[i], "", <<>>, OptionsOf(call))

\* C9: the list of an intersection is the concatenation, in member order,
\* of the lists of its members for the same value and path; it is empty iff
\* the list of every member is.
C9_Intersection ==
    \A call \in called :
        typeInfo.kind = "intersection" =>
            /\ results[call] =
                  Flatten([i \in 1..Len(typeInfo.types) |->
                              MemberErrors(i, call)])
            /\ results[call] = <<>> <=>
                  \A i \in 1..Len(typeInfo.types) : MemberErrors(i, call) = <<>>

\* both members fail and the errors of both are returned
C9_Witness ==
    /\ "lenient" \in called
    /\ typeInfo.kind = "intersection"
    /\ Len(typeInfo.types) = 2
    /\ MemberErrors(1, "lenient") # <<>>
    /\ MemberErrors(2, "lenient") # <<>>
    /\ Len(results["lenient"]) = Len(MemberErrors(1, "lenient"))
                                    + Len(MemberErrors(2, "lenient"))

-----------------------------------------------------------------------------
(* C10 *)

\* the token begins and ends with a double quote, or with a single quote
\* (a lone quote character is read as the empty quoted token)
IsQuotedToken(token) ==
    /\ Len(token) >= 1
    /\ \/ token[1] = "\"" /\ token[Len(token)] = "\""
       \/ token[1] = "'" /\ token[Len(token)] = "'"

\* the value C10 gives to a scalar token
ScalarTyping(token) ==
    IF token \in {Chars("null"), <<"~">>, <<>>} THEN Null
    ELSE IF token \in {Chars("true"), Chars("True"), Chars("TRUE")}
    THEN Bool(TRUE)
    ELSE IF token \in {Chars("false"), Chars("False"), Chars("FALSE")}
    THEN Bool(FALSE)
    ELSE IF IsQuotedToken(token)
    THEN Str(ToStr(SubSeq(token, 2, Len(token) - 1)))
    ELSE IF IsIntegerToken(token) THEN parseInt(token)
    ELSE IF IsDecimalToken(token) THEN parseFloat(token)
    ELSE Str(ToStr(token))

\* C10: a scalar token has the same typing in mapping-value position and in
\* sequence-item position: null, ~ and the empty value give null; true and
\* false in their three spellings give booleans; a quoted token gives the
\* text between the quotes whatever it contains; -?digits gives an integer,
\* -?digits.digits a decimal; every other bare token is the unchanged string.
C10_YamlScalarTyping ==
    yamlPc = "done" =>
        \A token \in Tokens :
            /\ yamlInput = MappingDoc(token) =>
                  yamlResult = Obj(<<"k">>, <<ScalarTyping(token)>>)
            /\ yamlInput = SequenceDoc(token) =>
                  yamlResult = Obj(<<"k">>, <<Arr(<<ScalarTyping(token)>>)>>)

-----------------------------------------------------------------------------
(* C11 *)

\* the value C11 gives to an entry
EntryValue(e) ==
    CASE e.kind = "scalar" -> ScalarTyping(e.token)
      [] e.kind = "sequence" ->
            Arr([i \in 1..Len(e.tokens) |-> ScalarTyping(e.tokens[i])])
      [] e.kind = "mapping" ->
            Obj(SubSeq(NestedKeys, 1, Len(e.tokens)),
                [i \in 1..Len(e.tokens) |-> ScalarTyping(e.tokens[i])])
      [] e.kind = "deep" ->
            Obj(<<"m", "b">>,
                <<Obj(<<"a">>, <<ScalarTyping(e.token)>>),
                  ScalarTyping(e.token)>>)

BlockValue(entries) ==
    Obj(SubSeq(TopKeys, 1, Len(entries)),
        [i \in 1..Len(entries) |-> EntryValue(entries[i])])

\* the text begins with the lines of the entries
IsBlockDocOf(text, entries) ==
    /\ Len(text) >= Len(BlockDoc(entries))
    /\ SubSeq(text, 1, Len(BlockDoc(entries))) = BlockDoc(entries)

\* C11: a key with an empty value whose next significant line is indented
\* deeper maps to an array when that line starts with '-' (one element per
\* '-' line at that indentation) and to a nested mapping otherwise (one
\* entry per 'key: value' line at that indentation); the nested block ends
\* at the first line indented less than its base indentation, and a line at
\* the parent's indentation is parsed as the next key of the parent, so the
\* keys that follow a nested block are kept.
C11_YamlBlockStructure ==
    yamlPc = "done" =>
        \A e1 \in Entries :
            IsBlockDocOf(yamlInput, <<e1>>) =>
                /\ Len(yamlInput) = Len(BlockDoc(<<e1>>)) =>
                      yamlResult = BlockValue(<<e1>>)
                /\ \A e2 \in Entries :
                      yamlInput = BlockDoc(<<e1, e2>>) =>
                          yamlResult = BlockValue(<<e1, e2>>)

\* a nested mapping of two entries and a nested sequence of two items, each
\* followed by a key of the parent that is kept
C11_Witness ==
    /\ yamlPc = "done"
    /\ \E t \in BlockTokens, ts \in TokenSeqs :
          /\ Len(ts) = 2
          /\ yamlInput = BlockDoc(<<DeepEntry(2, t), SequenceEntry(2, ts)>>)
    /\ yamlResult.keys = <<"k", "z">>
    /\ yamlResult.vals[1].keys = <<"m", "b">>
    /\ Len(yamlResult.vals[2].items) = 2

-----------------------------------------------------------------------------
(* C12 *)

RenderedTomlLines == {RenderTomlLine(l) : l \in TomlLines}

\* the text is a table document: pair and header lines, each with its line end
IsTableDoc(text) ==
    LET ls == SplitLines(text)
    IN /\ Len(ls) >= 2
       /\ ls[Len(ls)] = <<>>
       /\ \A i \in 1..(Len(ls) - 1) : ls[i] \in RenderedTomlLines

\* the lines of a table document
TableDescOf(text) ==
    LET ls == SplitLines(text)
    IN [i \in 1..(Len(ls) - 1) |->
            CHOOSE l \in TomlLines : RenderTomlLine(l) = ls[i]]

\* the path of the last header before the line i, the root when there is none
PathOf(d, i) ==
    LET headers == {j \in 1..(i - 1) : d[j].kind = "header"}
    IN IF headers = {} THEN <<>>
       ELSE d[CHOOSE j \in headers : \A k \in headers : k <= j].path

RECURSIVE Lookup(_, _)
\* v.p1.p2...pn, Undefined when a key on the way is missing
Lookup(v, path) ==
    IF Len(path) = 0 THEN v
    ELSE IF v.tag = "object" /\ HasKey(v, Head(path))
    THEN Lookup(Get(v, Head(path)), Tail(path))
    ELSE Undefined

\* the root and every table on the path of a header
TablePaths(d) ==
    {<<>>} \cup UNION {{SubSeq(d[j].path, 1, n) : n \in 1..Len(d[j].path)} :
                          j \in {i \in DOMAIN d : d[i].kind = "header"}}

\* the keys the table at p is to hold: the keys of the pairs written under a
\* header [p], and the next key of every header path that goes through p
ExpectedKeys(d, p) ==
    {d[i].key : i \in {j \in DOMAIN d : d[j].kind = "pair" /\ PathOf(d, j) = p}}
        \cup {q[Len(p) + 1] :
                q \in {r \in TablePaths(d) :
                          Len(r) > Len(p) /\ SubSeq(r, 1, Len(p)) = p}}

KeySet(obj) == {obj.keys[i] : i \in DOMAIN obj.keys}

\* C12: after a table header [p1.p2...pn] every following key = value line
\* up to the next header is stored at result.p1.p2...pn[key] and not at the
\* root; the tables missing on the path are created as empty mappings, a
\* table already on the path is reused with its earlier entries kept, and
\* the pairs before the first header are stored at the root.
C12_TomlTableTracking ==
    tomlPc = "done" /\ IsTableDoc(tomlInput) =>
        LET d == TableDescOf(tomlInput)
        IN /\ \A i \in DOMAIN d :
                  d[i].kind = "pair" =>
                      Lookup(tomlResult, Append(PathOf(d, i), d[i].key))
                          = Num(DigitValue(d[i].digit))
           /\ \A p \in TablePaths(d) :
                  /\ Lookup(tomlResult, p) # Undefined
                  /\ Lookup(tomlResult, p).tag = "object"
                  /\ KeySet(Lookup(tomlResult, p)) = ExpectedKeys(d, p)
                  /\ Len(Lookup(tomlResult, p).keys)
                        = Cardinality(ExpectedKeys(d, p))

\* [t.u], a = 1, [t], b = 2: t is created for [t.u] and reused by [t]
C12_Witness ==
    /\ tomlPc = "done"
    /\ tomlInput = TableDoc(<<HeaderLine(<<"t", "u">>), PairLine("a", "1"),
                              HeaderLine(<<"t">>), PairLine("b", "2")>>)
    /\ tomlResult = Obj(<<"t">>,
                        <<Obj(<<"u", "b">>,
                              <<Obj(<<"a">>, <<Num(1)>>), Num(2)>>)>>)

-----------------------------------------------------------------------------
(* C13 *)

\* C13: a comma separates two items iff it lies outside every quoted string
\* and at bracket/brace depth 0, so nested arrays, inline tables and quoted
\* strings that contain commas, brackets, braces or escaped characters (a
\* string whose last character is an escaped backslash included) each stay
\* one item: the array x = [item, ..., item] has one element per item, the
\* value of that item.
C13_TomlItemSplitting ==
    tomlPc = "done" =>
        \A items \in ItemSeqs :
            tomlInput = ArrayDoc(items) =>
                tomlResult
                    = Obj(<<"x">>,
                          <<Arr([i \in 1..Len(items) |-> items[i].value])>>)

-----------------------------------------------------------------------------
(* C14 *)

EscapeLetters == {"n", "t", "r", "\\", "\""}

\* the character an escape letter denotes
Denoted(c) ==
    CASE c = "n" -> "\n"
      [] c = "t" -> "\t"
      [] c = "r" -> "\r"
      [] OTHER -> c

RECURSIVE IsEscapedContent(_)
\* the content of a double-quoted string: every backslash begins an escape
\* sequence and every double quote is escaped
IsEscapedContent(chars) ==
    IF Len(chars) = 0 THEN TRUE
    ELSE IF chars[1] = "\\"
    THEN /\ Len(chars) >= 2
         /\ chars[2] \in EscapeLetters
         /\ IsEscapedContent(SubSeq(chars, 3, Len(chars)))
    ELSE chars[1] # "\"" /\ IsEscapedContent(Tail(chars))

RECURSIVE DecodeOnce(_)
\* one pass, left to right: a backslash and the letter after it are consumed
\* together and give the character they denote
DecodeOnce(chars) ==
    IF Len(chars) = 0 THEN <<>>
    ELSE IF chars[1] = "\\"
    THEN <<Denoted(chars[2])>> \o DecodeOnce(SubSeq(chars, 3, Len(chars)))
    ELSE <<chars[1]>> \o DecodeOnce(Tail(chars))

\* C14: the value of a double-quoted string is its content decoded once,
\* left to right, each escape sequence \n, \t, \r, \\ and \" replaced by
\* the character it denotes and every source character consumed by at most
\* one escape; a single-quoted string is returned with no escape processing.
C14_TomlStringDecoding ==
    tomlPc = "done" =>
        \A c \in Contents :
            /\ tomlInput = StringDoc("\"", c) /\ IsEscapedContent(c) =>
                  tomlResult = Obj(<<"s">>, <<Str(ToStr(DecodeOnce(c)))>>)
            /\ tomlInput = StringDoc("'", c) =>
                  tomlResult = Obj(<<"s">>, <<Str(ToStr(c))>>)

-----------------------------------------------------------------------------
(* C17 *)

\* the reference C17 gives to '#', the first word and the words after it
DirectiveOf(word, args) ==
    IF word = AtType /\ Len(args) = 2
    THEN TypeReference("typescript", ToStr(args[1]), ToStr(args[2]))
    ELSE IF word = AtZod /\ Len(args) = 2
    THEN TypeReference("zod", ToStr(args[1]), ToStr(args[2]))
    ELSE IF word = AtJsonSchema /\ Len(args) = 1
    THEN TypeReference("jsonschema", ToStr(args[1]), "")
    ELSE Null

-----------------------------------------------------------------------------
(* C15 *)

\* the document begins with an opening delimiter line that a later line
\* consisting of the same delimiter closes
IsDelimited(d) == d.before = <<>> /\ d.closing = "same"

\* the lines between the two delimiter lines
BodyText(lines) == JoinChars([i \in 1..Len(lines) |-> lines[i].text], <<"\n">>)

ParserOf(format, text) ==
    IF format = "toml" THEN parseToml(text) ELSE parseYaml(text)

\* C15: extractFrontmatter returns null iff the document does not begin at
\* offset 0 with an opening delimiter line '---' or '+++' that is later
\* closed by the same delimiter; a result has format yaml for '---' and
\* toml for '+++', and its data is the output of that format's parser on
\* the body (the empty mapping for an empty body).
C15_FrontmatterDetection ==
    frontmatterPc = "done" =>
        /\ \A d \in DocDescs :
              document = RenderDoc(d) =>
                  IF IsDelimited(d)
                  THEN /\ frontmatter # Null
                       /\ frontmatter.format = d.format
                       /\ frontmatter.data
                            = ParserOf(d.format, BodyText(d.body))
                  ELSE frontmatter = Null
        /\ document = <<"-", "-", "-", "\n", "-", "-", "-">> =>
              /\ frontmatter # Null
              /\ frontmatter.format = "yaml"
              /\ frontmatter.data = Obj(<<>>, <<>>)
        /\ document \in Documents \ ({RenderDoc(d) : d \in DocDescs}
                            \cup {<<"-", "-", "-", "\n", "-", "-", "-">>}) =>
              frontmatter = Null

-----------------------------------------------------------------------------
(* C16 *)

\* the reference C16 gives to a @schema line
SchemaDirective(line) ==
    IF line.text = CommentWith(AtSchema, <<PathJson>>)
    THEN TypeReference("jsonschema", "./s.json", "")
    ELSE IF line.text = CommentWith(AtSchema, <<PathTs, <<"T">>>>)
    THEN TypeReference("auto", "./t.ts", "T")
    ELSE Null

\* the body holds one @schema line, and besides it pairs and ordinary
\* comments only
HasOneSchemaLine(body) ==
    /\ Cardinality({i \in DOMAIN body : body[i].kind = "schema"}) = 1
    /\ \A i \in DOMAIN body : body[i].kind \in {"schema", "pair", "note"}

SchemaLineOf(body) == body[CHOOSE i \in DOMAIN body : body[i].kind = "schema"]

\* C16: a frontmatter line '# @schema <path> [<name>]' is the schema
\* directive in YAML and in TOML frontmatter and is removed from the data
\* lines: a .json path gives the jsonschema reference with the empty type
\* name, a .ts path gives {kind: auto, filePath, typeName}, and a path with
\* another extension gives no typeRef and no error.
C16_SchemaDirective ==
    frontmatterPc = "done" =>
        \A d \in DocDescs :
            document = RenderDoc(d) /\ IsDelimited(d)
                /\ HasOneSchemaLine(d.body) =>
                /\ frontmatter \notin {Null, TypeError}
                /\ frontmatter.data
                     = ParserOf(d.format,
                                BodyText(SelectSeq(d.body,
                                    LAMBDA l : l.kind # "schema")))
                /\ IF SchemaDirective(SchemaLineOf(d.body)) = Null
                   THEN "typeRef" \notin DOMAIN frontmatter
                   ELSE /\ "typeRef" \in DOMAIN frontmatter
                        /\ frontmatter.typeRef
                             = SchemaDirective(SchemaLineOf(d.body))

-----------------------------------------------------------------------------
(* Vocabulary of the properties of lintFile / lintContent *)

\* the documents of the model that carry one of the directives
DocsWith(directives) ==
    {LintDoc(d[1], d[2], d[3]) :
        d \in {e \in LintDocDescs : e[2] \in directives}}

Linted(directives) ==
    /\ lintPc = "done"
    /\ lintEnv.document.exists
    /\ lintEnv.document.text \in DocsWith(directives)

\* the path the directive of the document names
DirectivePath(text) ==
    CASE text \in DocsWith({"type", "schema.ts"}) -> "./t.ts"
      [] text \in DocsWith({"zod"}) -> "./z.ts"
      [] text \in DocsWith({"jsonschema", "schema.json"}) -> "./s.json"

\* the schema sources the call has used, in order
SchemaSources ==
    SelectSeq(lintProbes,
        LAMBDA p : p.op \in {"validateWithZod", "validateWithJsonSchema",
                             "extractTypeInfo"})

Consulted(path) == \E i \in DOMAIN lintProbes : lintProbes[i].path = path

\* the result is invalid and lists the one error of this code
OneError(code) ==
    /\ lintResult.valid = FALSE
    /\ Len(lintResult.errors) = 1
    /\ lintResult.errors[1].code = code

-----------------------------------------------------------------------------
(* C18 *)

\* the priority of the schema sources, for the documents whose directive
\* is one of directives
SourcePriority(directives) ==
    /\ Linted(directives) =>
          /\ ~Consulted("schema.json")
          /\ ~Consulted("schema.ts")
          /\ \A i \in DOMAIN SchemaSources :
                SchemaSources[i].path = DirectivePath(lintEnv.document.text)
    /\ Linted({"none"}) /\ ~Flag(lintOptions, "noAutoSchema")
            /\ lintEnv.schemaJson.exists =>
          /\ SchemaSources = <<Probe("validateWithJsonSchema", "schema.json")>>
          /\ ~Consulted("schema.ts")
    /\ lintPc = "done" /\ Consulted("schema.ts") =>
          /\ Linted({"none"})
          /\ ~lintEnv.schemaJson.exists
    /\ lintPc = "done" => Len(SchemaSources) <= 1

\* C18: a directive in the frontmatter always wins and no auto-detection is
\* consulted; without a directive and with noAutoSchema unset, schema.json
\* of the base directory is used when it exists; schema.ts is consulted only
\* when there is no directive and no schema.json; at most one schema source
\* is used for one document.
C18_SchemaSourcePriority == SourcePriority(Directives)

-----------------------------------------------------------------------------
(* C19 *)

\* C19: for a document with frontmatter, no directive and no applicable
\* auto-detected schema (neither schema.json nor schema.ts exists, or
\* noAutoSchema is set), lintContent returns an invalid result with exactly
\* one MISSING_SCHEMA_ANNOTATION error when requireSchema is set and a valid
\* result with no errors otherwise, and runs no validation.
C19_MissingSchema ==
    Linted({"none"})
        /\ (\/ Flag(lintOptions, "noAutoSchema")
            \/ ~lintEnv.schemaJson.exists /\ ~lintEnv.schemaTs.exists) =>
        /\ IF Flag(lintOptions, "requireSchema")
           THEN OneError("MISSING_SCHEMA_ANNOTATION")
           ELSE lintResult.valid = TRUE /\ lintResult.errors = <<>>
        /\ SchemaSources = <<>>
        /\ \A i \in DOMAIN lintProbes : lintProbes[i].op # "validate"

\* both schema.json and a schema.ts with one type exist, noAutoSchema and
\* requireSchema are set, and the call returned the one error; and the same
\* document without requireSchema is valid
C19_Witness ==
    /\ Linted({"none"})
    /\ lintEnv.schemaJson = JsonFile("schema")
    /\ lintEnv.schemaTs.exists
    /\ Flag(lintOptions, "noAutoSchema")
    /\ Flag(lintOptions, "requireSchema")
    /\ OneError("MISSING_SCHEMA_ANNOTATION")
    /\ lintProbes = <<>>

-----------------------------------------------------------------------------
(* C20 *)

\* the schemas schema.ts offers: type aliases, interfaces, Zod schemas
Offered(file) ==
    Len(file.types) + Len(file.interfaces)
        + Cardinality(NamesOf(file.values) \cap file.zod)

\* the failure of the schema resolution of the call, by the taxonomy: the
\* code of the failure, or "none"
Failure ==
    LET text == lintEnv.document.text
        target == lintEnv.target
        json == lintEnv.schemaJson
        schemaTs == lintEnv.schemaTs
    IN CASE ~lintEnv.document.exists -> "FILE_NOT_FOUND"
         [] text \in DocsWith(Directives) /\ ~target.exists ->
                "FILE_NOT_FOUND"
         [] text \in DocsWith({"type", "schema.ts"})
                /\ "T" \notin NamesOf(target.types)
                            \cup NamesOf(target.interfaces) ->
                "TYPE_NOT_FOUND"
         [] text \in DocsWith({"zod"}) /\ target.importable
                /\ "S" \notin NamesOf(target.values) -> "SCHEMA_NOT_FOUND"
         [] text \in DocsWith({"zod"}) /\ target.importable
                /\ "S" \notin target.zod -> "INVALID_SCHEMA"
         [] text \in DocsWith({"jsonschema", "schema.json"})
                /\ target.json = "syntaxError" -> "INVALID_JSON"
         [] text \in DocsWith({"jsonschema", "schema.json"})
                /\ target.json = "notASchema" -> "INVALID_SCHEMA"
         [] text \in DocsWith({"none"}) /\ ~Flag(lintOptions, "noAutoSchema")
                /\ json.exists /\ json.json = "syntaxError" -> "INVALID_JSON"
         [] text \in DocsWith({"none"}) /\ ~Flag(lintOptions, "noAutoSchema")
                /\ json.exists /\ json.json = "notASchema" -> "INVALID_SCHEMA"
         [] text \in DocsWith({"none"}) /\ ~Flag(lintOptions, "noAutoSchema")
                /\ ~json.exists /\ schemaTs.exists /\ schemaTs.importable
                /\ Offered(schemaTs) = 0 -> "NO_SCHEMA_IN_FILE"
         [] text \in DocsWith({"none"}) /\ ~Flag(lintOptions, "noAutoSchema")
                /\ ~json.exists /\ schemaTs.exists /\ schemaTs.importable
                /\ Offered(schemaTs) > 1 -> "MULTIPLE_SCHEMAS_FOUND"
         [] OTHER -> "none"

\* C20: when resolving the schema fails (document file missing, schema file
\* missing, named type or schema not found, invalid JSON, invalid schema
\* document, schema.ts with zero or several schemas), the LintResult is
\* invalid and lists exactly one error, which carries the matching code of
\* the taxonomy, and no validation error with it.
C20_FailureShortCircuit ==
    lintPc = "done" /\ Failure # "none" => OneError(Failure)

-----------------------------------------------------------------------------
(* checker/type-extractor.ts, convertTsTypeToTypeInfo.  The types of the   *)
(* program are a graph: typeGraph[id] is the type with that id, and a type  *)
(* refers to other types by their ids.  StringType is the id of string.    *)
(* The recursion is run call by call: convStack holds, innermost last, the  *)
(* calls that have not returned, each with the types it has still to       *)
(* convert and the TypeInfo it has got back.                               *)

StringType == 0

\* ts.Type of an object type with its properties, of an array type, of a
\* union and of an intersection
ObjectType(props) == [kind |-> "object", types |-> props]
ArrayType(element) == [kind |-> "array", types |-> <<element>>]
UnionType(types) == [kind |-> "union", types |-> types]
IntersectionType(types) == [kind |-> "intersection", types |-> types]

\* prop.getName() of the properties of an object type, in order
PropNames == <<"p", "q">>

\* type.getFlags() & ts.TypeFlags.Object
isObjectLike(graph, id) ==
    id # StringType /\ graph[id].kind \in {"object", "array"}

\* convertTsTypeToTypeInfo returns without converting the type
returnsAny_Never(graph, id, visitedSet) == FALSE

\* typeId !== undefined && isObjectLike && visited.has(typeId)
returnsAny(graph, id, visitedSet) ==
    isObjectLike(graph, id) /\ id \in visitedSet

\* visited after the entry of the call on the type
visitedAfter(graph, id, visitedSet) ==
    IF isObjectLike(graph, id) THEN visitedSet \cup {id} ELSE visitedSet

\* the call of convertTsTypeToTypeInfo on the type that has not returned
Frame(id, types) == [type |-> id, types |-> types, converted |-> <<>>]

\* the TypeInfo a call returns once the types it refers to are converted
typeInfoOf(type, converted) ==
    CASE type.kind = "union" -> TUnion(converted)
      [] type.kind = "intersection" -> TIntersection(converted)
      [] type.kind = "array" -> TArray(converted[1])
      [] type.kind = "object" ->
            TObject([i \in 1..Len(converted) |->
                        Prop(PropNames[i], converted[i], FALSE)])

\* The type graphs

\* the most types, string aside, a program declares
MaxTypes == 2
\* the most calls of extractTypeInfo
MaxConvCalls == 2

TypeIds == 1..MaxTypes
Targets == {StringType} \cup TypeIds

\* the pairs of member types of a union or an intersection
MemberPairs == {<<j, k>> : j \in Targets, k \in Targets}

\* type 1 is an object type with two properties; every other type is an
\* object type with one property, an array, a union or an intersection of
\* two types
TypesAt(id) ==
    IF id = 1 THEN {ObjectType(<<j, k>>) : j \in Targets, k \in Targets}
    ELSE {ObjectType(<<j>>) : j \in Targets}
            \cup {ArrayType(j) : j \in Targets}
            \cup {UnionType(m) : m \in {n \in MemberPairs : n[1] < n[2]}}
            \cup {IntersectionType(m) :
                    m \in {n \in MemberPairs : n[1] < n[2]}}

\* the type checker rejects a union or intersection that refers to itself
\* without an object or array type in between: such a type refers only to
\* string, to object and array types, and to unions and intersections
\* declared after it
NoCircularAlias(graph) ==
    \A id \in DOMAIN graph :
        graph[id].kind \in {"union", "intersection"} =>
            \A i \in DOMAIN graph[id].types :
                LET t == graph[id].types[i]
                IN t = StringType \/ isObjectLike(graph, t) \/ t > id

TypeGraphs ==
    {g \in [TypeIds -> UNION {TypesAt(id) : id \in TypeIds}] :
        /\ \A id \in TypeIds : g[id] \in TypesAt(id)
        /\ NoCircularAlias(g)}

\* the calls convertTsTypeToTypeInfo nests at most
MaxDepth == 2 * MaxTypes + 1

ConvertInit ==
    /\ typeGraph \in TypeGraphs
    /\ convPc = "ready"
    /\ convCalls = 0
    /\ foundType = 0
    /\ convStack = <<>>
    /\ visited = {}
    /\ convResult = Null
    /\ CacheIdle
    /\ ValidateIdle
    /\ YamlIdle
    /\ TomlIdle
    /\ FrontmatterIdle
    /\ CommentIdle
    /\ LintIdle

\* extractTypeInfo(filePath, typeName, basePath), root being the type
\* of that name: convertTsTypeToTypeInfo(foundType, typeChecker, new Set())
\* up to the point where it has marked foundType
ExtractTypeInfo(root) ==
    /\ convPc \in {"ready", "done"}
    /\ convCalls < MaxConvCalls
    /\ convCalls' = convCalls + 1
    /\ convPc' = "running"
    /\ foundType' = root
    /\ visited' = visitedAfter(typeGraph, root, {})
    /\ convStack' = <<Frame(root, typeGraph[root].types)>>
    /\ convResult' = Null
    /\ UNCHANGED <<typeGraph, cacheVars, validateVars, yamlVars, tomlVars,
                   frontmatterVars, commentVars, lintVars>>

\* the innermost call calls convertTsTypeToTypeInfo on the next type it
\* refers to: the call returns at once for string and for an object or array
\* type in visited, and otherwise marks the type and goes on inside it
ConvertCall ==
    /\ convPc = "running"
    /\ Len(convStack) < MaxDepth
    /\ LET top == convStack[Len(convStack)]
       IN /\ Len(top.types) > 0
          /\ LET id == Head(top.types)
                 rest == [top EXCEPT !.types = Tail(top.types)]
                 outer == SubSeq(convStack, 1, Len(convStack) - 1)
             IN IF returnsAny(typeGraph, id, visited)
                THEN /\ convStack' =
                            Append(outer,
                                [rest EXCEPT !.converted = Append(@, TAny)])
                     /\ visited' = visited
                ELSE IF id = StringType
                THEN /\ convStack' =
                            Append(outer,
                                [rest EXCEPT
                                    !.converted = Append(@, TString)])
                     /\ visited' = visited
                ELSE /\ convStack' =
                            Append(Append(outer, rest),
                                   Frame(id, typeGraph[id].types))
                     /\ visited' = visitedAfter(typeGraph, id, visited)
    /\ UNCHANGED <<typeGraph, convPc, convCalls, foundType, convResult,
                   cacheVars, validateVars, yamlVars, tomlVars,
                   frontmatterVars, commentVars, lintVars>>

\* the innermost call has converted every type it refers to and returns
\* its TypeInfo, to the call that made it or to extractTypeInfo
ConvertReturn ==
    /\ convPc = "running"
    /\ LET top == convStack[Len(convStack)]
           info == typeInfoOf(typeGraph[top.type], top.converted)
       IN /\ Len(top.types) = 0
          /\ IF Len(convStack) = 1
             THEN /\ convStack' = <<>>
                  /\ convResult' = info
                  /\ convPc' = "done"
             ELSE LET caller == convStack[Len(convStack) - 1]
                  IN /\ convStack' =
                          Append(SubSeq(convStack, 1, Len(convStack) - 2),
                                 [caller EXCEPT
                                    !.converted = Append(@, info)])
                     /\ convResult' = convResult
                     /\ convPc' = convPc
    /\ UNCHANGED <<typeGraph, convCalls, foundType, visited, cacheVars,
                   validateVars, yamlVars, tomlVars, frontmatterVars,
                   commentVars, lintVars>>

ConvertNext ==
    \/ \E root \in TypeIds : ExtractTypeInfo(root)
    \/ ConvertCall
    \/ ConvertReturn

SpecConvert == ConvertInit /\ [][ConvertNext]_vars

\* every call made is run to its return
SpecConvertFair == SpecConvert /\ WF_vars(ConvertCall \/ ConvertReturn)

-----------------------------------------------------------------------------
(* checker/type-extractor.ts, programCache.  A program is known by its id,  *)
(* the position of its creation in created.  lintFiles starts one lintFile *)
(* call per file; the calls run interleaved, switching at their awaits,    *)
(* and extractTypeInfo and analyzeSchemaFile hold no await: each runs from *)
(* its programCache.get to its return in one step.                         *)

\* let program: undefined
NoProgram == 0

\* mutant: the cache is never hit
getProgram_AlwaysMisses(cache, absolutePath) == NoProgram

\* programCache.get(absolutePath)
getProgram(cache, absolutePath) ==
    IF absolutePath \in DOMAIN cache THEN cache[absolutePath] ELSE NoProgram

\* "Get program from cache or create new one": the cache and the programs
\* created, after the block
cacheOrCreate(cache, programs, absolutePath) ==
    IF getProgram(cache, absolutePath) # NoProgram
    THEN [cache |-> cache, created |-> programs]
    ELSE [cache |-> [q \in DOMAIN cache \cup {absolutePath} |->
                        IF q = absolutePath THEN Len(programs) + 1
                        ELSE cache[q]],
          created |-> Append(programs, absolutePath)]

\* The lintFile calls of one lintFiles call

\* the most lintFile calls lintFiles starts
MaxTasks == 3

SchemaTsPath == "/docs/schema.ts"
TypesTsPath == "/docs/t.ts"

CacheUse(op, absolutePath) == [op |-> op, path |-> absolutePath]

\* what one lintFile call does with the cache: nothing (no frontmatter, a
\* @zod or @jsonschema directive, schema.json), extractTypeInfo for a @type
\* directive, analyzeSchemaFile for a schema.ts that offers no single type,
\* or analyzeSchemaFile and, after the awaits of the auto-detection,
\* extractTypeInfo on schema.ts
TaskKinds ==
    {<<>>,
     <<CacheUse("extractTypeInfo", TypesTsPath)>>,
     <<CacheUse("extractTypeInfo", SchemaTsPath)>>,
     <<CacheUse("analyzeSchemaFile", SchemaTsPath)>>,
     <<CacheUse("analyzeSchemaFile", SchemaTsPath),
       CacheUse("extractTypeInfo", SchemaTsPath)>>}

CacheInit ==
    /\ tasks \in UNION {[1..n -> TaskKinds] : n \in 1..MaxTasks}
    /\ taskPc = [t \in DOMAIN tasks |-> 1]
    /\ programCache = <<>>
    /\ created = <<>>
    /\ ConvertIdle
    /\ ValidateIdle
    /\ YamlIdle
    /\ TomlIdle
    /\ FrontmatterIdle
    /\ CommentIdle
    /\ LintIdle

\* the lintFile call t runs the cache user it has come to
RunCacheUse(t, op) ==
    /\ taskPc[t] <= Len(tasks[t])
    /\ tasks[t][taskPc[t]].op = op
    /\ LET after == cacheOrCreate(programCache, created,
                                  tasks[t][taskPc[t]].path)
       IN /\ programCache' = after.cache
          /\ created' = after.created
    /\ taskPc' = [taskPc EXCEPT ![t] = @ + 1]
    /\ UNCHANGED <<tasks, convertVars, validateVars, yamlVars, tomlVars,
                   frontmatterVars, commentVars, lintVars>>

\* extractTypeInfo(filePath, typeName, basePath) in the lintFile call t
CacheExtractTypeInfo(t) == RunCacheUse(t, "extractTypeInfo")

\* analyzeSchemaFile(filePath, basePath) in the lintFile call t
CacheAnalyzeSchemaFile(t) == RunCacheUse(t, "analyzeSchemaFile")

CacheNext ==
    \/ \E t \in DOMAIN tasks : CacheExtractTypeInfo(t)
    \/ \E t \in DOMAIN tasks : CacheAnalyzeSchemaFile(t)

SpecCache == CacheInit /\ [][CacheNext]_vars

-----------------------------------------------------------------------------
(* C21 *)

\* the exported values of schema.ts that are Zod schemas: the values of the
\* imported module that have safeParse, none when the import fails
ZodValues(file) ==
    IF file.importable
    THEN SelectSeq(file.values, LAMBDA v : v \in file.zod)
    ELSE <<>>

\* the names of the schemas schema.ts offers
OfferedNames(file) == file.types \o file.interfaces \o ZodValues(file)

\* the call has consulted schema.ts
SchemaTsConsulted ==
    /\ lintPc = "done"
    /\ \E i \in DOMAIN lintProbes :
          lintProbes[i] = Probe("analyzeSchemaFile", "schema.ts")

\* C21: when schema.ts is consulted, the schemas it offers are its exported
\* type aliases, its exported interfaces and its exported values that are
\* Zod schemas, other exported values not counted; with exactly one, the
\* validation runs against it, by validateWithZod when it is a Zod schema
\* and by extractTypeInfo and validate otherwise, and the name is found;
\* with none the result is the single error NO_SCHEMA_IN_FILE; with more
\* than one the result is the single error MULTIPLE_SCHEMAS_FOUND, whose
\* message lists the name of every counted schema.
C21_SchemaTsAutoDetection ==
    SchemaTsConsulted =>
        LET names == OfferedNames(lintEnv.schemaTs)
        IN CASE Len(names) = 0 -> OneError("NO_SCHEMA_IN_FILE")
             [] Len(names) > 1 ->
                  /\ OneError("MULTIPLE_SCHEMAS_FOUND")
                  /\ lintResult.errors[1].message =
                        "Multiple schemas found in schema.ts: "
                            \o JoinStr(names, ", ")
                            \o ". Please use explicit annotation or export only one schema."
                  /\ SchemaSources = <<>>
             [] OTHER ->
                  /\ SchemaSources =
                        <<Probe(IF Len(ZodValues(lintEnv.schemaTs)) = 1
                                THEN "validateWithZod"
                                ELSE "extractTypeInfo", "schema.ts")>>
                  /\ \A i \in DOMAIN lintResult.errors :
                        lintResult.errors[i].code \notin
                            {"NO_SCHEMA_IN_FILE", "MULTIPLE_SCHEMAS_FOUND",
                             "TYPE_NOT_FOUND", "SCHEMA_NOT_FOUND",
                             "INVALID_SCHEMA", "FILE_NOT_FOUND"}

\* schema.ts exports the Zod schema S and the constant c and nothing else,
\* and the document was validated with the Zod schema; the constant was not
\* counted
C21_Witness ==
    /\ SchemaTsConsulted
    /\ lintEnv.schemaTs = TsFile(<<>>, <<>>, <<"S", "c">>, {"S"}, TRUE)
    /\ SchemaSources = <<Probe("validateWithZod", "schema.ts")>>
    /\ lintResult.valid = TRUE

-----------------------------------------------------------------------------
(* C22 *)

\* C22: parseToml returns a mapping and raises no error for every input
\* text: a line that is neither a comment, a table header nor a key = value
\* pair is skipped, and a table header whose dotted path passes through or
\* ends at a key already bound to a non-table value is recovered without an
\* exception.
C22_TomlNeverThrows ==
    tomlPc = "done" =>
        /\ tomlResult # TypeError
        /\ tomlResult.tag = "object"

-----------------------------------------------------------------------------
(* C23 *)

\* the lines between the opening delimiter line and the first later line
\* that consists of the closing delimiter, with the line ends between them
RawBody(d) == JoinChars([i \in 1..Len(d.body) |-> d.body[i].text], d.eol)

\* C23: the body extractFrontmatter captures, raw and as the lines it splits
\* raw into, is exactly the sequence of lines between the opening delimiter
\* line and the first later line that consists of the closing delimiter; a
\* '---' (or '+++' for TOML) inside a data line does not end the
\* frontmatter and no data line is cut short.
C23_FrontmatterBodyBoundary ==
    frontmatterPc = "done" =>
        \A d \in DocDescs :
            document = RenderDoc(d) /\ IsDelimited(d) =>
                /\ frontmatter # Null
                /\ frontmatter.raw = RawBody(d)
                /\ SplitLines(frontmatter.raw)
                      = IF Len(d.body) = 0 THEN <<<<>>>>
                        ELSE [i \in 1..Len(d.body) |-> d.body[i].text]
                /\ frontmatter.endLine = Len(SplitLines(RawBody(d))) + 2

-----------------------------------------------------------------------------
(* C24 *)

\* the entries written before the malformed line
EntriesBefore(d) ==
    Obj(SubSeq(NestedKeys, 1, Len(d.tokens)),
        [i \in 1..Len(d.tokens) |-> ScalarTyping(d.tokens[i])])

\* the value C24 gives to a malformed document
MalformedValue(d) ==
    LET inner == IF d.depth = 1 THEN EntriesBefore(d)
                 ELSE IF d.after = NoToken
                 THEN Obj(<<"m">>, <<EntriesBefore(d)>>)
                 ELSE Obj(<<"m", "b">>,
                          <<EntriesBefore(d), ScalarTyping(d.after)>>)
    IN IF d.after = NoToken THEN Obj(<<"k">>, <<inner>>)
       ELSE Obj(<<"k", "z">>, <<inner, ScalarTyping(d.after)>>)

\* C24: parseYaml raises no error on a significant line that contains no
\* ':'; such a line inside a nested mapping ends only that nested mapping,
\* the entries parsed before it are kept, and the keys of the enclosing
\* mappings that follow the malformed line at lower indentation are still
\* parsed into their mappings.
C24_YamlLocalRecovery ==
    yamlPc = "done" =>
        \A d \in MalformedDescs :
            yamlInput = MalformedDoc(d) => yamlResult = MalformedValue(d)

-----------------------------------------------------------------------------
(* C25 *)

\* the value C25 gives to a flush document
FlushValue(d) ==
    LET items == Arr([i \in 1..Len(d.tokens) |-> ScalarTyping(d.tokens[i])])
    IN IF d.after = NoToken THEN Obj(<<"k">>, <<items>>)
       ELSE Obj(<<"k", "z">>, <<items, ScalarTyping(d.after)>>)

\* C25: a key with an empty value followed by '- item' lines written at
\* the same indentation as the key maps to the array of those items, and
\* the keys that follow the sequence are still parsed into the same
\* mapping.
C25_YamlFlushSequence ==
    yamlPc = "done" =>
        \A d \in FlushDescs :
            yamlInput = FlushDoc(d) => yamlResult = FlushValue(d)

-----------------------------------------------------------------------------
(* C26 *)

\* C26: convertTsTypeToTypeInfo finishes on every finite type graph,
\* self-referential and mutually recursive object types reached through
\* properties, arrays, unions or intersections included: every call of
\* extractTypeInfo that was started returns; and the visited set is created
\* fresh for each extractTypeInfo call, holding at the start of the call at
\* most the type asked for.
C26_FlatteningTerminates ==
    /\ (convPc = "running") ~> (convPc = "done")
    /\ [][convPc # "running" /\ convPc' = "running" =>
            visited' \subseteq {convStack'[1].type}]_vars

RECURSIVE ContainsAny(_)
\* the TypeInfo holds Any somewhere
ContainsAny(info) ==
    CASE info.kind = "any" -> TRUE
      [] info.kind = "array" -> ContainsAny(info.elementType)
      [] info.kind = "object" ->
            \E i \in DOMAIN info.properties :
                ContainsAny(info.properties[i].type)
      [] info.kind \in {"union", "intersection"} ->
            \E i \in DOMAIN info.types : ContainsAny(info.types[i])
      [] OTHER -> FALSE

\* the second call of extractTypeInfo has returned for a type that refers
\* to itself through a union and an array: 1 = { p: 2, q: string },
\* 2 = 1 | string ... the result holds Any where the type is met again
C26_Witness ==
    /\ convPc = "done"
    /\ convCalls = 2
    /\ typeGraph[1] = ObjectType(<<2, StringType>>)
    /\ typeGraph[2] = UnionType(<<StringType, 1>>)
    /\ convResult = TObject(<<Prop("p", TUnion(<<TString, TAny>>), FALSE),
                              Prop("q", TString, FALSE)>>)

-----------------------------------------------------------------------------
(* C27 *)

RECURSIVE ExpandOnPath(_, _, _)
\* the structure of the type with Any only where an object or array type
\* is met again while it is being expanded, path holding the types under
\* expansion
ExpandOnPath(graph, id, path) ==
    IF id = StringType THEN TString
    ELSE IF isObjectLike(graph, id) /\ id \in path THEN TAny
    ELSE typeInfoOf(graph[id],
            [i \in DOMAIN graph[id].types |->
                ExpandOnPath(graph, graph[id].types[i],
                             IF isObjectLike(graph, id)
                             THEN path \cup {id} ELSE path)])

\* C27: Any is substituted only when a type is met again while it is still
\* being expanded on the current path; an object or array type referenced
\* from two sibling positions of a type that does not refer to itself is
\* flattened to its full structure at both positions.
C27_CycleBreakingOnPathOnly ==
    convPc = "done" =>
        convResult = ExpandOnPath(typeGraph, foundType, {})

-----------------------------------------------------------------------------
(* C28 *)

RECURSIVE IsSubsequence(_, _)
\* the errors of a occur in b, in the same relative order
IsSubsequence(a, b) ==
    IF Len(a) = 0 THEN TRUE
    ELSE IF Len(b) = 0 THEN FALSE
    ELSE IF Head(a) = Head(b) THEN IsSubsequence(Tail(a), Tail(b))
    ELSE IsSubsequence(a, Tail(b))

\* C28: for every value and type the error list of validate with
\* allowExtraProps:true is a subsequence (same errors, same relative order)
\* of the error list with allowExtraProps:false; a value with zero errors in
\* strict mode has zero errors in lenient mode, also when object types
\* occur inside unions.
C28_RelaxingNeverAddsErrors ==
    {"strict", "lenient"} \subseteq called =>
        /\ IsSubsequence(results["lenient"], results["strict"])
        /\ results["strict"] = <<>> => results["lenient"] = <<>>

\* an object type inside the union of a property: an undeclared key makes
\* the member fail in strict mode, so the strict list holds the union's
\* TYPE_MISMATCH, and the lenient list is empty
C28_Witness ==
    /\ {"strict", "lenient"} \subseteq called
    /\ typeInfo.kind = "object"
    /\ ObjectInsideUnion(typeInfo)
    /\ Len(results["strict"]) = 1
    /\ results["strict"][1].code = "TYPE_MISMATCH"
    /\ results["lenient"] = <<>>

-----------------------------------------------------------------------------
(* C29 *)

\* the document 'a:', a key with an empty value
KeyWithEmptyValue == <<"a", ":">>

\* C29: a declared property whose key is present with the value null (what
\* parseYaml gives for 'key:' with an empty value) is never treated as
\* absent, required or optional: it gives no MISSING_PROPERTY, and its null
\* is validated against the declared type, so null against a String
\* property gives exactly one TYPE_MISMATCH, received null, at the property.
C29_PresenceByKey ==
    /\ value = Obj(<<"a">>, <<Null>>) =>
          parseYaml(KeyWithEmptyValue) = value
    /\ \A call \in called :
          (typeInfo.kind = "object" /\ IsObjectValue(value)) =>
              \A i \in 1..Len(typeInfo.properties) :
                  LET p == typeInfo.properties[i]
                  IN (HasKey(value, p.name) /\ Get(value, p.name) = Null) =>
                        /\ CountAt(results[call], "MISSING_PROPERTY", p.name)
                              = 0
                        /\ HasBlock(results[call],
                              validateValue(Null, p.type, p.name, <<>>,
                                            OptionsOf(call)))
                        /\ p.type = TString =>
                              /\ CountAt(results[call], "TYPE_MISMATCH",
                                         p.name) = 1
                              /\ \A j \in 1..Len(results[call]) :
                                    ( /\ "path" \in DOMAIN results[call][j]
                                      /\ results[call][j].path = p.name ) =>
                                        /\ results[call][j].expected = "string"
                                        /\ results[call][j].actual = "null"

\* { a: null } against { a?: string }: the one error is the TYPE_MISMATCH of
\* a, under every option set
C29_Witness ==
    /\ called = Calls
    /\ value = Obj(<<"a">>, <<Null>>)
    /\ typeInfo = TObject(<<Prop("a", TString, TRUE)>>)
    /\ \A call \in Calls :
          /\ Len(results[call]) = 1
          /\ results[call][1].code = "TYPE_MISMATCH"
          /\ results[call][1].path = "a"

-----------------------------------------------------------------------------
(* C30 *)

\* the programs created for the path
CreatedFor(absolutePath) ==
    {i \in DOMAIN created : created[i] = absolutePath}

\* C30: across every interleaving of the extractTypeInfo and
\* analyzeSchemaFile calls of concurrent lintFile calls, the cache holds at
\* most one program per absolute path and no program was created twice for
\* a path; a program is created only when its path is not yet cached; and
\* an entry once inserted is never replaced or removed, so every later call
\* for that path uses the same program.
C30_ProgramCache ==
    /\ [](/\ \A q \in DOMAIN programCache :
                CreatedFor(q) = {programCache[q]}
          /\ \A i \in DOMAIN created : created[i] \in DOMAIN programCache)
    /\ [][/\ created' # created =>
                \E q \in {SchemaTsPath, TypesTsPath} \ DOMAIN programCache :
                    created' = Append(created, q)
          /\ \A q \in DOMAIN programCache :
                /\ q \in DOMAIN programCache'
                /\ programCache'[q] = programCache[q]]_vars

\* two lintFile calls have both run analyzeSchemaFile and extractTypeInfo
\* on the same schema.ts, and one program was created for it
C30_Witness ==
    /\ Len(tasks) = 2
    /\ \A t \in DOMAIN tasks :
          /\ tasks[t] = <<CacheUse("analyzeSchemaFile", SchemaTsPath),
                          CacheUse("extractTypeInfo", SchemaTsPath)>>
          /\ taskPc[t] = 3
    /\ created = <<SchemaTsPath>>
    /\ programCache[SchemaTsPath] = 1

====
